---- MODULE Spec2Model ----
(***************************************************************************)
(* Model of the Sinusbot command library (src/command.ts, version 1.4.3):  *)
(* the Argument hierarchy, Command / CommandGroup dispatch, the Throttle   *)
(* bucket and the chat message handler.                                    *)
(*                                                                         *)
(* Text is modelled as a sequence of one-character strings, so that        *)
(* split(" "), shift(), join(" ") and trim() are computed, not assumed.    *)
(***************************************************************************)
EXTENDS Integers, Sequences, FiniteSets, TLC

(***************************************************************************)
(* Bounds of the model.                                                    *)
(***************************************************************************)
\* longest argument text enumerated for the validation specification
MaxTextLen == 3

\* the characters argument texts are built from ("1","5": digits, "x": a
\* letter, " ": the separator of split(" "))
Chars == {"1", "5", "x", " "}

RECURSIVE SeqsUpTo(_, _)
SeqsUpTo(S, n) ==
  IF n = 0 THEN {<<>>}
  ELSE LET shorter == SeqsUpTo(S, n - 1)
       IN  shorter \cup {Append(s, c) : s \in {t \in shorter : Len(t) = n - 1}, c \in S}

Texts == SeqsUpTo(Chars, MaxTextLen)

(***************************************************************************)
(* String primitives of the JavaScript runtime, on character sequences.    *)
(***************************************************************************)
\* index of the first " " of s, 0 when there is none
IndexOfSpace(s) ==
  IF \E i \in 1..Len(s) : s[i] = " "
  THEN CHOOSE i \in 1..Len(s) : s[i] = " " /\ \A j \in 1..(i - 1) : s[j] # " "
  ELSE 0

\* args.split(" ") followed by shift() || "": the text before the first space
FirstToken(s) ==
  IF IndexOfSpace(s) = 0 THEN s ELSE SubSeq(s, 1, IndexOfSpace(s) - 1)

\* the array left by shift(), joined with " ": the text after the first space
AfterFirstToken(s) ==
  IF IndexOfSpace(s) = 0 THEN <<>> ELSE SubSeq(s, IndexOfSpace(s) + 1, Len(s))

RECURSIVE TrimLeft(_)
TrimLeft(s) ==
  IF s # <<>> /\ Head(s) = " " THEN TrimLeft(Tail(s)) ELSE s

RECURSIVE TrimRight(_)
TrimRight(s) ==
  IF s # <<>> /\ s[Len(s)] = " " THEN TrimRight(SubSeq(s, 1, Len(s) - 1)) ELSE s

\* String.prototype.trim
Trim(s) == TrimRight(TrimLeft(s))

Digits == {"0", "1", "2", "3", "4", "5", "6", "7", "8", "9"}

DigitVal(c) ==
  CASE c = "0" -> 0 [] c = "1" -> 1 [] c = "2" -> 2 [] c = "3" -> 3 [] c = "4" -> 4
    [] c = "5" -> 5 [] c = "6" -> 6 [] c = "7" -> 7 [] c = "8" -> 8 [] c = "9" -> 9

\* /^-?\d+(\.\d+)?$/ restricted to texts without "." (Chars has none)
IsNumberToken(tok) ==
  LET body == IF tok # <<>> /\ Head(tok) = "-" THEN Tail(tok) ELSE tok
  IN  body # <<>> /\ \A i \in 1..Len(body) : body[i] \in Digits

RECURSIVE DecimalValue(_)
DecimalValue(ds) ==
  IF ds = <<>> THEN 0
  ELSE 10 * DecimalValue(SubSeq(ds, 1, Len(ds) - 1)) + DigitVal(ds[Len(ds)])

\* parseFloat of a token that matches the number pattern
ParseFloat(tok) ==
  IF Head(tok) = "-" THEN 0 - DecimalValue(Tail(tok)) ELSE DecimalValue(tok)

(***************************************************************************)
(* Values handed to execution handlers.                                    *)
(***************************************************************************)
Undefined == [t |-> "undefined", n |-> 0, s |-> <<>>, m |-> <<>>]
NumV(n)   == [t |-> "number", n |-> n, s |-> <<>>, m |-> <<>>]
StrV(s)   == [t |-> "string", n |-> 0, s |-> s, m |-> <<>>]
BoolV(b)  == [t |-> "boolean", n |-> IF b THEN 1 ELSE 0, s |-> <<>>, m |-> <<>>]
\* a plain object: m maps property names to values
ObjV(m)   == [t |-> "object", n |-> 0, s |-> <<>>, m |-> m]

\* obj[name] = val on a plain object represented as a function
SetProp(obj, name, val) == (name :> val) @@ obj

(***************************************************************************)
(* Errors.                                                                 *)
(***************************************************************************)
NoError == [kind |-> "none", arg |-> "", msg |-> ""]
ParseError(msg, arg) == [kind |-> "ParseError", arg |-> arg.name, msg |-> msg]
\* what the runtime raises on undefined.trim() or on destructuring an Error
TypeError == [kind |-> "TypeError", arg |-> "", msg |-> "not iterable"]

(***************************************************************************)
(* Arguments.  A nullable number or word list is a set: {} is null, {v}    *)
(* holds v.                                                                *)
(***************************************************************************)
Argument(type) ==
  [type |-> type, name |-> "_", opt |-> FALSE, default |-> Undefined,
   min |-> {}, max |-> {}, whitelistWords |-> {}, forcePositive |-> FALSE,
   forceNegative |-> FALSE, children |-> <<>>]

StringArgument == Argument("string")
RestArgument   == Argument("rest")
NumberArgument == Argument("number")
ClientArgument == Argument("client")
GroupArgument(type) == Argument(type)

\* the builder methods used to declare an argument
setName(arg, name)      == [arg EXCEPT !.name = name]
optional(arg, fallback) == [arg EXCEPT !.opt = TRUE, !.default = fallback]
min(arg, n)             == [arg EXCEPT !.min = {n}]
max(arg, n)             == [arg EXCEPT !.max = {n}]
whitelist(arg, words)   ==
  [arg EXCEPT !.whitelistWords = {(UNION arg.whitelistWords) \cup words}]
positive(arg)           == [arg EXCEPT !.forcePositive = TRUE, !.forceNegative = FALSE]
negative(arg)           == [arg EXCEPT !.forcePositive = FALSE, !.forceNegative = TRUE]
addArgument(group, arg) == [group EXCEPT !.children = Append(@, arg)]

\* what a validate call can do: return [value, rest], throw, or (validateAnd)
\* return an Error object instead of throwing it
Returns(val, rest) == [st |-> "ok", val |-> val, rest |-> rest, err |-> NoError]
Throws(err)        == [st |-> "throw", val |-> Undefined, rest |-> <<>>, err |-> err]
ReturnsError(err)  == [st |-> "error", val |-> Undefined, rest |-> <<>>, err |-> err]

\* a faulty validateString, to show what EmptyTextLeafRule rules out: an
\* empty token is rejected
validateString_NonEmpty(this, arg, rest) ==
  IF arg = <<>> THEN Throws(ParseError("empty", this)) ELSE Returns(StrV(arg), rest)

\* StringArgument.validateString: the constraints in their fixed order
validateString(this, arg, rest) ==
  IF \E m \in this.min : m > Len(arg) THEN Throws(ParseError("minlen", this))
  ELSE IF \E m \in this.max : m < Len(arg) THEN Throws(ParseError("maxlen", this))
  ELSE IF \E w \in this.whitelistWords : arg \notin w
    THEN Throws(ParseError("whitelist", this))
  ELSE Returns(StrV(arg), rest)

\* StringArgument.validate
validateStringArgument(this, args) ==
  validateString(this, FirstToken(args), AfterFirstToken(args))

\* RestArgument.validate
validateRestArgument(this, args) == validateString(this, args, <<>>)

\* a faulty NumberArgument.validate, to show what ScenarioAOptionalAmount
\* rules out: the max constraint is not looked at
validateNumberArgument_NoMax(this, args) ==
  LET arg == FirstToken(args)
  IN  IF ~IsNumberToken(arg) THEN Throws(ParseError("not a valid number", this))
      ELSE IF \E m \in this.min : m > ParseFloat(arg) THEN Throws(ParseError("min", this))
      ELSE Returns(NumV(ParseFloat(arg)), AfterFirstToken(args))

\* NumberArgument.validate
validateNumberArgument(this, args) ==
  LET arg == FirstToken(args)
  IN  IF ~IsNumberToken(arg) THEN Throws(ParseError("not a valid number", this))
      ELSE LET num == ParseFloat(arg)
           IN  IF \E m \in this.min : m > num THEN Throws(ParseError("min", this))
               ELSE IF \E m \in this.max : m < num THEN Throws(ParseError("max", this))
               \* num % 1 !== 0 cannot hold: a token without "." is an integer
               ELSE IF this.forcePositive /\ num <= 0
                 THEN Throws(ParseError("not Positive", this))
               ELSE IF this.forceNegative /\ num >= 0
                 THEN Throws(ParseError("not Negative", this))
               ELSE Returns(NumV(num), AfterFirstToken(args))

RECURSIVE validate(_, _)
RECURSIVE someOr(_, _, _, _)
RECURSIVE someAnd(_, _, _, _)

\* GroupArgument.validateOr: the some() loop from child i on
someOr(this, i, args, resolved) ==
  IF i > Len(this.children) THEN Throws(ParseError("No valid match found", this))
  ELSE LET arg == this.children[i]
           result == validate(arg, args)
       IN  CASE result.st = "ok" ->
                  Returns(ObjV(SetProp(resolved, arg.name, result.val)), Trim(result.rest))
             [] result.st = "throw" -> someOr(this, i + 1, args, resolved)
             \* an Error object was returned: result[0] is undefined and
             \* result[1].trim() raises a TypeError, which the catch swallows
             [] result.st = "error" ->
                  someOr(this, i + 1, args, SetProp(resolved, arg.name, Undefined))

\* GroupArgument.validateAnd: the some() loop from child i on
someAnd(this, i, args, resolved) ==
  IF i > Len(this.children) THEN Returns(ObjV(resolved), args)
  ELSE LET arg == this.children[i]
           result == validate(arg, args)
       IN  CASE result.st = "ok" ->
                  someAnd(this, i + 1, Trim(result.rest), SetProp(resolved, arg.name, result.val))
             \* the error is stored and returned, not thrown
             [] result.st = "throw" -> ReturnsError(result.err)
             [] result.st = "error" -> ReturnsError(TypeError)

\* a faulty validateOr, to show what GroupOrFirstMatch rules out: the last
\* child that validates wins
validateOr_Last(this, args) ==
  LET valid == {i \in 1..Len(this.children) : validate(this.children[i], args).st = "ok"}
  IN  IF valid = {} THEN Throws(ParseError("No valid match found", this))
      ELSE LET k == CHOOSE i \in valid : \A j \in valid : j <= i
               result == validate(this.children[k], args)
           IN  Returns(ObjV(SetProp(<<>>, this.children[k].name, result.val)),
                       Trim(result.rest))

validateOr(this, args)  == someOr(this, 1, args, <<>>)
validateAnd(this, args) == someAnd(this, 1, args, <<>>)

\* the characters of [/+a-z0-9] under the flag i, of those texts are made of
UidChars ==
  {"/", "+", "a", "d", "e", "x", "A", "D", "E", "X"} \cup Digits

\* the length of the character run of a TeamSpeak uid, which "=" ends
UidLength == 27

\* the characters "." does not match
LineTerminators == {"\n", "\r"}

\* ClientArgument.validateTS3, for texts that do not open with the
\* [URL=client://...] form: the pattern
\* ^(...|(?<uid>[/+a-z0-9]{27}=)) *(?<rest>.*)$ matches when the text opens
\* with a uid and no line terminator follows; rest is what follows the
\* spaces after the uid
validateTS3(this, args) ==
  IF /\ Len(args) > UidLength
     /\ \A i \in 1..UidLength : args[i] \in UidChars
     /\ args[UidLength + 1] = "="
     /\ \A i \in (UidLength + 2)..Len(args) : args[i] \notin LineTerminators
    THEN Returns(StrV(SubSeq(args, 1, UidLength + 1)),
                 TrimLeft(SubSeq(args, UidLength + 2, Len(args))))
  ELSE Throws(ParseError("Client not found!", this))

\* ClientArgument.validate with the backend ts3
validateClientArgument(this, args) == validateTS3(this, args)

\* Argument.validate, dispatched on the class of the argument
validate(this, args) ==
  CASE this.type = "string" -> validateStringArgument(this, args)
    [] this.type = "rest"   -> validateRestArgument(this, args)
    [] this.type = "number" -> validateNumberArgument(this, args)
    [] this.type = "client" -> validateClientArgument(this, args)
    [] this.type = "or"     -> validateOr(this, args)
    [] this.type = "and"    -> validateAnd(this, args)

(***************************************************************************)
(* Command.validateArgs and Command.validate.                              *)
(***************************************************************************)
\* the state of the forEach walk of validateArgs: the locals result, errors
\* and args, the error that left the walk (thrown), and for each argument
\* visited the remainder it was given and how its validate ended (steps)
WalkStart(args) ==
  [result |-> <<>>, errors |-> <<>>, args |-> Trim(args), thrown |-> NoError,
   steps |-> <<>>]

Step(arg, given, r, walk) ==
  [arg |-> arg, name |-> arg.name, opt |-> arg.opt, given |-> given, st |-> r.st,
   err |-> r.err, val |-> r.val,
   recorded |-> IF arg.name \in DOMAIN walk.result THEN walk.result[arg.name] ELSE Undefined,
   errors |-> walk.errors, after |-> walk.args]

\* the try block: destructure the pair, store the value, trim the rest
walkAccept(arg, r, walk) ==
  [walk EXCEPT !.result = SetProp(@, arg.name, r.val), !.args = Trim(r.rest)]

\* a faulty catch block, to show what ValidateArgsOptionalFallback rules
\* out: the failed optional argument swallows the token it rejected
walkFallback_Consume(arg, r, walk) ==
  [walk EXCEPT !.result = SetProp(@, arg.name, arg.default),
               !.errors = Append(@, r.err),
               !.args = Trim(AfterFirstToken(walk.args))]

\* the catch block for an optional argument that raised a ParseError
walkFallback(arg, r, walk) ==
  [walk EXCEPT !.result = SetProp(@, arg.name, arg.default),
               !.errors = Append(@, r.err)]

\* a faulty forEach callback, to show what ValidateArgsRequiredAborts rules
\* out: a required argument that fails is passed over like an optional one
walkArgument_Forgiving(arg, walk) ==
  LET r == validate(arg, walk.args)
      next == IF r.st = "ok" THEN walkAccept(arg, r, walk) ELSE walkFallback(arg, r, walk)
  IN  [next EXCEPT !.steps = Append(@, Step(arg, walk.args, r, next))]

\* one call of the forEach callback of validateArgs
walkArgument(arg, walk) ==
  LET r == validate(arg, walk.args)
      next ==
        CASE r.st = "ok" -> walkAccept(arg, r, walk)
          [] r.st = "throw" /\ r.err.kind = "ParseError" /\ arg.opt ->
               walkFallback(arg, r, walk)
          [] r.st = "throw" -> [walk EXCEPT !.thrown = r.err]
          \* an Error object is not a pair: the destructuring raises a
          \* TypeError, which is rethrown whether the argument is optional or not
          [] r.st = "error" -> [walk EXCEPT !.thrown = TypeError]
  IN  [next EXCEPT !.steps = Append(@, Step(arg, walk.args, r, next))]

RECURSIVE forEachArgument(_, _, _)
forEachArgument(arguments, i, walk) ==
  IF i > Len(arguments) \/ walk.thrown.kind # "none" THEN walk
  ELSE forEachArgument(arguments, i + 1, walkArgument(arguments[i], walk))

\* a faulty validateArgs, to show what GreedyNoBacktracking rules out: when
\* the walk fails, it is tried again with the first argument, if optional,
\* left at its default
validateArgs_Backtrack(arguments, args) ==
  LET walk == forEachArgument(arguments, 1, WalkStart(args))
      retry == forEachArgument(arguments, 2,
                               walkFallback(arguments[1], [err |-> walk.thrown],
                                            WalkStart(args)))
  IN  IF walk.thrown.kind = "ParseError" /\ Len(arguments) > 1 /\ arguments[1].opt
           /\ retry.thrown.kind = "none"
        THEN retry
      ELSE walk

\* Command.validateArgs(args) of a command with the given arguments
validateArgs(arguments, args) == forEachArgument(arguments, 1, WalkStart(args))

\* errors.shift(): the first recorded ParseError, or undefined
firstError(errors) == IF errors = <<>> THEN NoError ELSE Head(errors)

\* a faulty validate, to show what ValidateTooManyArguments rules out: the
\* leftover text is only reported when an optional argument failed before
validateCommand_Lenient(arguments, args) ==
  LET walk == validateArgs(arguments, args)
  IN  IF walk.thrown.kind # "none"
        THEN [kind |-> walk.thrown.kind, result |-> <<>>, parseError |-> walk.thrown]
      ELSE IF Len(walk.args) > 0 /\ walk.errors # <<>>
        THEN [kind |-> "TooManyArgumentsError", result |-> <<>>,
              parseError |-> firstError(walk.errors)]
      ELSE [kind |-> "ok", result |-> walk.result, parseError |-> NoError]

\* Command.validate(args): the resolved map, or the error it raises; a
\* TooManyArgumentsError carries parseError
validateCommand(arguments, args) ==
  LET walk == validateArgs(arguments, args)
  IN  IF walk.thrown.kind # "none"
        THEN [kind |-> walk.thrown.kind, result |-> <<>>, parseError |-> walk.thrown]
      ELSE IF Len(walk.args) > 0
        THEN [kind |-> "TooManyArgumentsError", result |-> <<>>,
              parseError |-> firstError(walk.errors)]
      ELSE [kind |-> "ok", result |-> walk.result, parseError |-> NoError]

(***************************************************************************)
(* The registered commands.  The model registers, as a script would at     *)
(* load time, the commands of the specification's scenarios:               *)
(*   ping  [amount=1]          throttled, everybody may use it             *)
(*   mass  <action> <message>  only alice may use it; two handlers         *)
(*   money add|remove <count>  a CommandGroup without own handler; add has *)
(*                             the alias a                                 *)
(*   info                      a CommandGroup with its own handler         *)
(*   pay                       forced prefix $, alias p                    *)
(*   say                       default prefix, alias s, throttled          *)
(* Names, like every text, are character sequences.                        *)
(***************************************************************************)
\* the names the commands are registered under
PING == <<"p", "i", "n", "g">>
MASS == <<"m", "a", "s", "s">>
MONEY == <<"m", "o", "n", "e", "y">>
ADD == <<"a", "d", "d">>
REMOVE == <<"r", "e", "m", "o", "v", "e">>
INFO == <<"i", "n", "f", "o">>
PAY == <<"p", "a", "y">>
SAY == <<"s", "a", "y">>
SHOP == <<"s", "h", "o", "p">>
BUY == <<"b", "u", "y">>
BANG == <<"!">>
DOLLAR == <<"$">>
SP == <<" ">>

Clients == {"alice", "bob"}
\* the client ev.client.isSelf() holds for
Self == "bot"

\* ev.mode of a chat event
PrivateChat == 1
ChannelChat == 2
ServerChat == 3
Modes == {PrivateChat, ChannelChat, ServerChat}

amount  == optional(max(min(setName(NumberArgument, "amount"), 1), 10), NumV(1))
count   == min(setName(NumberArgument, "count"), 1)
action  == whitelist(setName(StringArgument, "action"), {<<"x">>})
message == min(setName(RestArgument, "message"), 1)
\* further declarations the validation specification walks
word    == optional(min(setName(StringArgument, "word"), 2), StrV(<<>>))
phrase  == setName(StringArgument, "phrase")
either  == addArgument(addArgument(setName(GroupArgument("or"), "either"), count), action)
pair    == addArgument(addArgument(setName(GroupArgument("and"), "pair"), count), action)
anyOf   == addArgument(addArgument(setName(GroupArgument("or"), "anyOf"), count), phrase)
label   == optional(setName(StringArgument, "label"), StrV(<<"x">>))

\* the leaf arguments validate is applied to on its own
number  == setName(NumberArgument, "number")
all     == setName(RestArgument, "all")
who     == setName(ClientArgument, "who")
LeafArguments == {phrase, action, min(phrase, 2), number, count, all, message, who}

\* a TeamSpeak uid: 27 characters of the uid alphabet and "="
UID == [i \in 1..UidLength |-> IF i % 2 = 1 THEN "a" ELSE "5"] \o <<"=">>

\* the texts handed to a leaf argument: a token, or a token, one space and
\* trailing text
LeafTokens == {<<>>, <<"5">>, <<"1", "5">>, <<"x">>, <<"x", "x">>, UID, Tail(UID)}
LeafTrailing ==
  {<<>>, <<"x">>, <<"5">>, <<" ", "x">>, <<"x", " ", "1">>, <<"x", "\n", "1">>}
LeafTexts == LeafTokens \cup {tok \o SP \o tr : tok \in LeafTokens, tr \in LeafTrailing}

\* the argument lists of the commands the validation specification declares
ArgLists ==
  {<<>>, <<amount>>, <<action, message>>, <<word, count>>, <<amount, word>>,
   <<count, amount>>, <<amount, count>>, <<phrase>>, <<either>>, <<pair>>,
   <<optional(either, NumV(0)), word>>, <<optional(pair, NumV(0)), phrase>>,
   <<word, optional(message, StrV(<<>>))>>, <<anyOf>>, <<count, either>>, <<label, count>>}

\* new Command(name, collector) / new CommandGroup(name, collector): the
\* field defaults of BaseCommand
BaseCommand(kind, name) ==
  [kind |-> kind, name |-> name, prefix |-> <<>>, availableAlias |-> <<>>,
   permissionHandler |-> <<>>, execHandler |-> 0, throttle |-> FALSE,
   arguments |-> <<>>, commands |-> <<>>]

UpperCase == <<"A", "D", "E", "G", "I", "M", "N", "O", "P", "R", "S", "V", "X", "Y">>
LowerCase == <<"a", "d", "e", "g", "i", "m", "n", "o", "p", "r", "s", "v", "x", "y">>

\* String.prototype.toLowerCase over the letters the model uses
toLowerCase(s) ==
  [i \in 1..Len(s) |->
     IF \E k \in 1..Len(UpperCase) : UpperCase[k] = s[i]
     THEN LowerCase[CHOOSE k \in 1..Len(UpperCase) : UpperCase[k] = s[i]]
     ELSE s[i]]

\* the builder methods used to declare a command
alias(cmd, a)                 == [cmd EXCEPT !.availableAlias = Append(@, toLowerCase(a))]
checkPermission(cmd, allowed) == [cmd EXCEPT !.permissionHandler = Append(@, allowed)]
exec(cmd)                     == [cmd EXCEPT !.execHandler = @ + 1]
addThrottle(cmd)              == [cmd EXCEPT !.throttle = TRUE]
cmdAddArgument(cmd, arg)      == [cmd EXCEPT !.arguments = Append(@, arg)]
addCommand(group, id)         == [group EXCEPT !.commands = Append(@, id)]
forcePrefix(cmd, prefix)      == [cmd EXCEPT !.prefix = prefix]

\* the catalogue: a permission predicate is the set of clients it accepts
Registered ==
  [ping   |-> addThrottle(exec(cmdAddArgument(BaseCommand("Command", PING), amount))),
   mass   |-> checkPermission(
                exec(exec(cmdAddArgument(cmdAddArgument(BaseCommand("Command", MASS),
                                                        action),
                                         message))),
                {"alice"}),
   money  |-> checkPermission(
                addCommand(addCommand(BaseCommand("CommandGroup", MONEY), "add"), "remove"),
                {"alice"}),
   add    |-> alias(exec(cmdAddArgument(BaseCommand("Command", ADD), count)), <<"A">>),
   remove |-> checkPermission(exec(cmdAddArgument(BaseCommand("Command", REMOVE), count)),
                              {"bob"}),
   info   |-> exec(BaseCommand("CommandGroup", INFO)),
   pay    |-> exec(alias(forcePrefix(BaseCommand("Command", PAY), DOLLAR), <<"p">>)),
   say    |-> addThrottle(exec(alias(BaseCommand("Command", SAY), <<"s">>))),
   shop   |-> addThrottle(exec(addCommand(BaseCommand("CommandGroup", SHOP), "buy"))),
   buy    |-> exec(BaseCommand("Command", BUY))]

CommandIds == DOMAIN Registered

\* Collector.commands: the top-level commands in registration order
TopLevel == <<"ping", "mass", "money", "info", "pay", "say", "shop">>

\* the chat lines clients send
MessageTexts ==
  {BANG \o PING, BANG \o PING \o SP \o <<"5">>, BANG \o PING \o SP \o <<"x">>,
   BANG \o MASS \o SP \o <<"x", " ", "1">>, BANG \o MASS \o SP \o <<"1">>,
   BANG \o MONEY \o SP \o ADD \o SP \o <<"5">>, BANG \o MONEY \o SP \o ADD \o SP \o <<"x">>,
   BANG \o MONEY \o SP \o REMOVE \o SP \o <<"5">>,
   BANG \o MONEY \o SP \o REMOVE \o SP \o <<"x">>,
   BANG \o MONEY, BANG \o MONEY \o SP \o <<"x">>, BANG \o INFO,
   BANG \o <<"x">>, <<"x">>}

\* the chat lines addressed to the CommandGroups, in every spelling
GroupTexts ==
  {BANG \o MONEY \o SP \o ADD \o SP \o <<"5">>, BANG \o MONEY \o SP \o ADD \o SP \o <<"x">>,
   BANG \o MONEY \o SP \o <<"A", "D", "D">> \o SP \o <<"5">>,
   BANG \o MONEY \o SP \o <<"a">> \o SP \o <<"5">>,
   BANG \o MONEY \o SP \o <<"A">> \o SP \o <<"5">>,
   BANG \o <<"M", "o", "n", "e", "y">> \o SP \o REMOVE \o SP \o <<"5">>,
   BANG \o MONEY \o SP \o REMOVE, BANG \o MONEY \o SP \o <<"x">> \o SP \o <<"5">>,
   BANG \o MONEY \o SP \o <<"a", "d">>, BANG \o MONEY, BANG \o MONEY \o SP,
   BANG \o INFO, BANG \o INFO \o SP \o <<"x">>}

\* the chat lines addressed to pay and say, in every spelling and with
\* either prefix
ChatTexts ==
  {DOLLAR \o PAY, DOLLAR \o <<"P", "A", "Y">>, DOLLAR \o <<"p">>, DOLLAR \o <<"P">>,
   BANG \o PAY, BANG \o <<"p">>,
   BANG \o SAY, BANG \o <<"S", "A", "Y">>, BANG \o <<"s">>, BANG \o <<"S">>,
   DOLLAR \o SAY, <<"x">>, BANG \o <<"x">>}

\* the chat lines of the not-found specification
NotFoundTexts ==
  {BANG \o <<"x">>, BANG \o MASS \o SP \o <<"x", " ", "1">>, BANG \o PING,
   BANG \o PAY, DOLLAR \o PAY, BANG, <<"x">>}

\* the instance settings getIgnoreCommandsFromPrivateChat, ...ChannelChat
\* and ...ServerChat, as the set of ignored modes
IgnoreSettings == {{}, {PrivateChat}, {ChannelChat, ServerChat}}

(***************************************************************************)
(* State.                                                                  *)
(***************************************************************************)
VARIABLES
  config,     \* the script configuration and the Throttle's settings
  enabled,    \* BaseCommand.enabled of every command
  throttled,  \* Throttle.throttled: client uid -> [points]
  timers,     \* the uids with a pending restorePoints timeout
  clock,      \* the time, and for each uid with a timeout the recorded
              \* `next` of its bucket and the time the timeout is due
  inflight,   \* the dispatches suspended at an await, one per slot
  last,       \* what the latest step did to a message (observation)
  uses,       \* per uid: charged dispatches since its bucket was created,
              \* -1 once a restoration tick has touched the bucket (observation)
  vinput,     \* validation specification: the arguments and text given
  voutput,    \* validation specification: what validateArgs / validate did
  pinput,     \* permission specification: the command that is checked
  poutput,    \* permission specification: how far the check has come
  registry    \* registration specification: Collector.commands as the calls
              \* of a script build it, and what the latest call did

vars ==
  <<config, enabled, throttled, timers, clock, inflight, last, uses, vinput, voutput, pinput,
    poutput, registry>>

\* the slots a suspended dispatch can occupy: the domain of inflight
Slots == DOMAIN inflight

\* the Throttle of Scenario D: initialPoints(3), penaltyPerCommand(1)
InitialPoints == 3
PenaltyPerCommand == 1
\* largest initialPoints / penaltyPerCommand the throttle specification
\* configures a Throttle with
MaxInitialPoints == 3
MaxPenalty == 2
\* Throttle.restore as constructed
DefaultRestore == 1
\* Throttle.tickrate as constructed (1000 ms), in units of the clock
TickRate == 2
\* the delay of setTimeout(..., this._tickrate): the Throttle has no field
\* _tickrate, the delay is undefined and the timeout is due at once
TimeoutDelay == 0
\* the clock of the bucket specification stops here
MaxTime == 3
\* largest restorePerTick the bucket specification configures
MaxRestore == 2
MaxNames == 3

(***************************************************************************)
(* Throttle.                                                               *)
(***************************************************************************)
\* a faulty isThrottled, to show what ThrottleAllowsCeilUses rules out: a
\* bucket at exactly zero still lets a dispatch through
isThrottled_Strict(buckets, id) ==
  IF id \notin DOMAIN buckets THEN FALSE ELSE buckets[id].points < 0

\* Throttle.isThrottled
isThrottled(buckets, id) ==
  IF id \notin DOMAIN buckets THEN FALSE ELSE buckets[id].points <= 0

\* Throttle.createIdIfNotExists
createIdIfNotExists(buckets, id) ==
  IF id \in DOMAIN buckets THEN buckets ELSE (id :> [points |-> config.initial]) @@ buckets

\* a faulty reducePoints, to show what ThrottleUseDeducts rules out: the
\* use that creates the bucket is free
reducePoints_FirstFree(buckets, id) ==
  IF id \in DOMAIN buckets THEN [buckets EXCEPT ![id].points = @ - config.penalty]
  ELSE createIdIfNotExists(buckets, id)

\* a faulty reducePoints, to show what InterleavedThrottleAtomic rules out:
\* the points written back were computed from a bucket read before another
\* dispatch deducted from it (here: from the full bucket)
reducePoints_Lost(buckets, id) ==
  (id :> [points |-> config.initial - config.penalty]) @@ buckets

\* a faulty reducePoints, to show what ThrottleIsolatedPerIdentity rules out:
\* the penalty is deducted from every recorded bucket, as if they were one
reducePoints_Shared(buckets, id) ==
  [i \in DOMAIN createIdIfNotExists(buckets, id) |->
     [createIdIfNotExists(buckets, id)[i] EXCEPT !.points = @ - config.penalty]]

\* Throttle.reducePoints without its refreshTimeout call: the bucket map
reducePoints(buckets, id) ==
  [createIdIfNotExists(buckets, id) EXCEPT ![id].points = @ - config.penalty]

\* Throttle.refreshTimeout: the pending timeouts once id's is cleared and set anew
refreshTimeout(buckets, pending, id) ==
  IF id \notin DOMAIN buckets THEN pending ELSE pending \cup {id}

\* Throttle.throttle: the bucket map and the timeouts it leaves, and what
\* it returns
throttle(buckets, pending, id) ==
  [throttled |-> reducePoints(buckets, id),
   timers |-> refreshTimeout(reducePoints(buckets, id), pending, id),
   returned |-> isThrottled(reducePoints(buckets, id), id)]

\* a faulty refreshTimeout, to show what OneTimeoutPerBucket rules out: the
\* timeout stored in the bucket is not cleared before the new one is set
rearmed_NoClear(waiting, armed) == waiting + 1

\* clearTimeout of the handle stored in the bucket, then setTimeout: how many
\* timeouts wait for a uid that had `waiting` of them, armed when the stored
\* handle is one of those
rearmed(waiting, armed) == IF armed THEN waiting ELSE waiting + 1

\* a timeout of id has run its callback: it waits no longer
fired(times, id) == [times EXCEPT !.timeouts[id] = @ - 1]

\* Throttle.refreshTimeout on the times: next and the moment the new timeout
\* is due are set for a uid with a bucket, whose stored timeout is cleared
\* (it is one of pending) and replaced; a uid whose bucket was deleted has
\* neither, and none of its timeouts is cleared
refreshedTimes(times, buckets, pending, id) ==
  IF id \notin DOMAIN buckets
    THEN [times EXCEPT !.next = [i \in DOMAIN times.next \ {id} |-> times.next[i]],
                       !.due = [i \in DOMAIN times.due \ {id} |-> times.due[i]]]
  ELSE [times EXCEPT !.next = (id :> times.now + TickRate) @@ times.next,
                     !.due = (id :> times.now + TimeoutDelay) @@ times.due,
                     !.timeouts[id] = rearmed(@, id \in pending)]

\* Throttle.timeTillNextCommand
timeTillNextCommand(id) ==
  IF id \notin DOMAIN throttled THEN 0 ELSE clock.next[id] - clock.now

\* a faulty restorePoints, to show what BucketsWithinInitial rules out: the
\* points are restored without a ceiling
restoredBuckets_NoCeiling(buckets, id) ==
  IF id \notin DOMAIN buckets THEN buckets
  ELSE [buckets EXCEPT ![id].points = @ + config.restore]

\* a faulty restorePoints, to show what RestoreTickRule rules out: a bucket
\* that is exactly full again is kept
restoredBuckets_KeepFull(buckets, id) ==
  IF id \notin DOMAIN buckets THEN buckets
  ELSE IF buckets[id].points + config.restore > config.initial
    THEN [i \in DOMAIN buckets \ {id} |-> buckets[i]]
  ELSE [buckets EXCEPT ![id].points = @ + config.restore]

\* a faulty restorePoints, to show what ThrottledEventuallyRestored rules
\* out: the tick restores nothing
restoredBuckets_Nothing(buckets, id) == buckets

\* Throttle.restorePoints: the bucket map after a tick for id
restoredBuckets(buckets, id) ==
  IF id \notin DOMAIN buckets THEN buckets
  ELSE IF buckets[id].points + config.restore >= config.initial
    THEN [i \in DOMAIN buckets \ {id} |-> buckets[i]]
  ELSE [buckets EXCEPT ![id].points = @ + config.restore]

\* a faulty handleThrottle, to show what RefusedDispatchChangesNothing
\* rules out: the refused dispatch is charged as well
handleThrottle_ChargeRefused(cmd, client) ==
  IF ~cmd.throttle
    THEN [error |-> FALSE, charged |-> FALSE, throttled |-> throttled, timers |-> timers]
  ELSE [error |-> isThrottled(throttled, client), charged |-> TRUE,
        throttled |-> reducePoints(throttled, client),
        timers |-> refreshTimeout(reducePoints(throttled, client), timers, client)]

\* a faulty handleThrottle, to show what ThrottleChecksThenDeducts rules
\* out: the penalty is deducted first and the bucket is checked afterwards
handleThrottle_DeductFirst(cmd, client) ==
  IF ~cmd.throttle
    THEN [error |-> FALSE, charged |-> FALSE, throttled |-> throttled, timers |-> timers]
  ELSE [error |-> isThrottled(reducePoints(throttled, client), client), charged |-> TRUE,
        throttled |-> reducePoints(throttled, client),
        timers |-> refreshTimeout(reducePoints(throttled, client), timers, client)]

\* BaseCommand.handleThrottle: whether it throws ThrottleError, and the
\* bucket map and timeouts it leaves
handleThrottle(cmd, client) ==
  IF ~cmd.throttle
    THEN [error |-> FALSE, charged |-> FALSE, throttled |-> throttled, timers |-> timers]
  ELSE IF isThrottled(throttled, client)
    THEN [error |-> TRUE, charged |-> FALSE, throttled |-> throttled, timers |-> timers]
  ELSE [error |-> FALSE, charged |-> TRUE,
        throttled |-> reducePoints(throttled, client),
        timers |-> refreshTimeout(reducePoints(throttled, client), timers, client)]

(***************************************************************************)
(* Permissions and name resolution.                                        *)
(***************************************************************************)
\* BaseCommand.isAllowed: every predicate accepts the client
isAllowed(cmd, client) ==
  \A i \in 1..Len(cmd.permissionHandler) : client \in cmd.permissionHandler[i]

\* Command.hasPermission / CommandGroup.hasPermission
hasPermission(cmd, client) ==
  IF cmd.kind = "Command" THEN isAllowed(cmd, client)
  ELSE /\ isAllowed(cmd, client)
       /\ \/ cmd.execHandler > 0
          \/ \E i \in 1..Len(cmd.commands) : isAllowed(Registered[cmd.commands[i]], client)

\* Collector.getCommandPrefix with no prefix configured in the engine
getCommandPrefix == BANG

\* a faulty getPrefix, to show what ForcedPrefixOnly rules out: the forced
\* prefix is not looked at
getPrefix_Default(cmd) == getCommandPrefix

\* BaseCommand.getPrefix
getPrefix(cmd) == IF Len(cmd.prefix) > 0 THEN cmd.prefix ELSE getCommandPrefix

\* BaseCommand.getCommandNames / getFullCommandNames
getCommandNames(cmd) == {cmd.name} \cup {cmd.availableAlias[i] : i \in 1..Len(cmd.availableAlias)}
getFullCommandNames(cmd) == {getPrefix(cmd) \o n : n \in getCommandNames(cmd)}

\* text.startsWith(prefix)
startsWith(text, prefix) ==
  Len(text) >= Len(prefix) /\ SubSeq(text, 1, Len(prefix)) = prefix

\* Collector.getAvailableCommandsWithPrefix
getAvailableCommandsWithPrefix(name) ==
  LET Keep(id) == enabled[id] /\ toLowerCase(name) \in getFullCommandNames(Registered[id])
  IN  SelectSeq(TopLevel, Keep)

\* a faulty isPossibleCommand, to show what IgnoredHasNoEffect rules out:
\* every text is taken for a command
isPossibleCommand_Any(text) == TRUE

\* Collector.isPossibleCommand
isPossibleCommand(text) ==
  \/ startsWith(text, getCommandPrefix)
  \/ \E i \in 1..Len(TopLevel) : FirstToken(text) \in getFullCommandNames(Registered[TopLevel[i]])

\* a faulty findCommandByName, to show what GroupDispatchResolvesChild
\* rules out: the name is compared as it was typed
findCommandByName_CaseSensitive(group, name) ==
  LET Keep(id) == name \in getCommandNames(Registered[id])
      found == SelectSeq(group.commands, Keep)
  IN  IF Len(name) = 0 \/ found = <<>> THEN "" ELSE Head(found)

\* CommandGroup.findCommandByName: the children with that name ("" when the
\* name is empty or no child has it, which raises CommandNotFoundError)
findCommandByName(group, name) ==
  LET Keep(id) == toLowerCase(name) \in getCommandNames(Registered[id])
      found == SelectSeq(group.commands, Keep)
  IN  IF Len(name) = 0 \/ found = <<>> THEN "" ELSE Head(found)

(***************************************************************************)
(* Dispatch.                                                               *)
(***************************************************************************)
\* the regular expression of messageHandler, ^(\S*)\s*(.*)\s*$: the command
\* token and the argument text
commandOf(text) == FirstToken(text)
argsOf(text) == TrimLeft(SubSeq(text, Len(FirstToken(text)) + 1, Len(text)))

\* the commands a script can enable and disable while messages arrive
Togglable == {"mass", "add"}

\* what an execution handler can do when it is called: return, throw an
\* Error, throw a value that is no Error, or return a rejected promise
Behaviours == {"ok", "throw", "throwValue", "reject"}

\* a suspended dispatch: pc "gperm" awaits CommandGroup.hasPermission in
\* CommandGroup.dispatch, pc "perm" awaits hasPermission in dispatchCommand
Idle ==
  [pc |-> "idle", client |-> "", mode |-> ChannelChat, text |-> <<>>, cmd |-> "", target |-> "", args |-> <<>>,
   arguments |-> <<>>, validation |-> "none", named |-> "", namedEnabled |-> TRUE]

\* the command a chat line names, enabled or not ("" when it names none)
namedCommand(text) ==
  LET Named(id) == toLowerCase(commandOf(text)) \in getFullCommandNames(Registered[id])
      tops == SelectSeq(TopLevel, Named)
  IN  IF tops = <<>> THEN ""
      ELSE IF Registered[Head(tops)].kind = "Command" THEN Head(tops)
      ELSE IF findCommandByName(Registered[Head(tops)], FirstToken(argsOf(text))) # ""
        THEN findCommandByName(Registered[Head(tops)], FirstToken(argsOf(text)))
      ELSE Head(tops)

\* The text computations of a step depend on the chat line alone; they are
\* the chat lines addressed to the throttled CommandGroup shop and to its
\* child buy, which has no throttle
ShopTexts ==
  {BANG \o SHOP, BANG \o SHOP \o SP, BANG \o SHOP \o SP \o BUY,
   BANG \o SHOP \o SP \o <<"x">>}

\* tabulated once for the chat lines clients send.
Parsed ==
  {[text |-> text, command |-> commandOf(text), args |-> argsOf(text),
    possible |-> isPossibleCommand(text), named |-> namedCommand(text),
    matching |-> LET Named(id) ==
                       toLowerCase(commandOf(text)) \in getFullCommandNames(Registered[id])
                 IN  SelectSeq(TopLevel, Named)] : text \in MessageTexts \cup GroupTexts \cup ChatTexts \cup NotFoundTexts
                                \cup ShopTexts}

parse(text) == CHOOSE p \in Parsed : p.text = text

\* the argument texts a Command can be handed: those of the chat lines, and
\* what a CommandGroup passes on to a child
ArgTexts == {p.args : p \in Parsed} \cup {AfterFirstToken(p.args) : p \in Parsed}

Validated ==
  {[id |-> id, args |-> args, v |-> validateCommand(Registered[id].arguments, args)] :
     id \in {c \in CommandIds : Registered[c].kind = "Command"}, args \in ArgTexts}

\* Command.validate(args) of the registered command id
validateRegistered(id, args) == (CHOOSE r \in Validated : r.id = id /\ r.args = args).v

\* the observation of one step on one message
NoObservation ==
  [kind |-> "none", client |-> "", mode |-> ChannelChat, text |-> <<>>, cmd |-> "",
   target |-> "",
   arguments |-> <<>>, named |-> "", namedEnabled |-> TRUE, validation |-> "none",
   outcome |-> "none", calls |-> 0,
   failed |-> 0, replies |-> 0, escaped |-> 0, charged |-> FALSE, returned |-> FALSE,
   throttledBefore |-> FALSE, usesBefore |-> 0, bucketBefore |-> {}]

\* what is known of the client's bucket when the step begins
Before(obs, client) ==
  [obs EXCEPT !.throttledBefore = isThrottled(throttled, client),
              !.usesBefore = uses[client],
              !.bucketBefore = IF client \in DOMAIN throttled
                                 THEN {throttled[client].points} ELSE {}]

\* a dispatch of d that ended with the error `outcome`, caught by the catch
\* block of messageHandler, which answers every error with one reply
Failed(d, outcome) ==
  Before([NoObservation EXCEPT !.kind = "dispatch", !.client = d.client,
            !.mode = d.mode, !.text = d.text, !.cmd = d.cmd, !.target = d.target, !.named = d.named, !.namedEnabled = d.namedEnabled,
            !.validation = d.validation, !.outcome = outcome, !.replies = 1],
         d.client)

\* Command.dispatch up to the await of dispatchCommand: validate runs while
\* the argument list of the dispatchCommand call is built
validatedCommand(d, id, v) ==  \* v: what this.validate(args) gave
  [d EXCEPT !.target = id, !.args = <<>>, !.validation = v.kind,
            !.arguments = v.result, !.pc = IF v.kind = "ok" THEN "perm" ELSE "done"]

\* Command.dispatch of the command id on the argument text args
startCommand(d, id, args) == validatedCommand(d, id, validateRegistered(id, args))

Quiet ==
  UNCHANGED <<registry, config, enabled, throttled, timers, clock, uses, vinput, voutput,
              pinput, poutput>>

\* a faulty not-found branch, to show what NotFoundPolicy rules out: the
\* reply is sent whatever the setting
notFoundReplies_Always(setting) == 1

\* the not-found branch of messageHandler: the setting is the index of the
\* selected option of NOT_FOUND_MESSAGE, "0" for YES and "1" for NO
notFoundReplies(setting) == IF setting # "0" THEN 0 ELSE 1

\* messageHandler(ev) for a chat line of a client in a chat mode, up to the
\* first await
MessageHandler(client, mode, text) ==
  LET ev == parse(text)
      Enabled(id) == enabled[id]
      \* collector.getAvailableCommandsWithPrefix(command)
      commands == SelectSeq(ev.matching, Enabled)
      d0 == [Idle EXCEPT !.client = client, !.mode = mode, !.text = text,
                         !.named = ev.named,
                         !.namedEnabled = (ev.named = "" \/ enabled[ev.named])]
  IN  /\ Quiet
      /\ IF mode \in config.ignore \/ client = Self \/ ~ev.possible
           THEN /\ last' = [NoObservation EXCEPT !.kind = "ignored", !.client = client,
                              !.mode = mode, !.text = text]
                /\ UNCHANGED inflight
         ELSE IF commands = <<>>
           THEN /\ last' = [NoObservation EXCEPT !.kind = "notfound", !.client = client,
                              !.mode = mode, !.text = text,
                              !.named = ev.named, !.namedEnabled = d0.namedEnabled,
                              !.outcome = "CommandNotFound",
                              !.replies = notFoundReplies(config.NOT_FOUND_MESSAGE)]
                /\ UNCHANGED inflight
         ELSE \E id \in {Head(commands)} :
              \E d \in {IF Registered[id].kind = "Command"
                           THEN startCommand([d0 EXCEPT !.cmd = id], id, ev.args)
                         ELSE [d0 EXCEPT !.cmd = id, !.target = id, !.args = ev.args,
                                         !.pc = "gperm"]} :
                  IF d.pc = "done"
                    THEN /\ last' = Failed(d, d.validation)
                         /\ UNCHANGED inflight
                  ELSE /\ \E s \in Slots :
                            /\ inflight[s].pc = "idle"
                            /\ \A r \in Slots : inflight[r].pc = "idle" => r >= s
                            /\ inflight' = [inflight EXCEPT ![s] = d]
                       /\ last' = NoObservation

\* CommandGroup.dispatch resumed after its await of hasPermission
GroupPermission(s) ==
  LET d == inflight[s]
      group == Registered[d.cmd]
      sub == FirstToken(d.args)
      rest == AfterFirstToken(d.args)
      child == findCommandByName(group, sub)
  IN  /\ d.pc = "gperm"
      /\ Quiet
      /\ IF ~hasPermission(group, d.client)
           THEN /\ last' = Failed(d, "PermissionError")
                /\ inflight' = [inflight EXCEPT ![s] = Idle]
         ELSE \E next \in {IF Len(sub) = 0
                              THEN [d EXCEPT !.args = <<>>, !.pc = "perm"]
                            ELSE IF child = "" THEN [d EXCEPT !.pc = "done"]
                            ELSE startCommand(d, child, rest)} :
              IF next.pc = "done"
                THEN /\ last' = Failed(next, IF child = "" THEN "CommandNotFoundError"
                                             ELSE next.validation)
                     /\ inflight' = [inflight EXCEPT ![s] = Idle]
              ELSE /\ last' = NoObservation
                   /\ inflight' = [inflight EXCEPT ![s] = next]

\* the handlers execHandler.forEach calls when they behave as bs says: the
\* loop ends at the first handler that throws
handlersCalled(n, bs) ==
  IF \E i \in 1..n : bs[i] \in {"throw", "throwValue"}
  THEN CHOOSE i \in 1..n :
         /\ bs[i] \in {"throw", "throwValue"}
         /\ \A j \in 1..(i - 1) : bs[j] \notin {"throw", "throwValue"}
  ELSE n

\* the observation of a dispatch whose handlers were called: a thrown error
\* reaches the catch block of messageHandler (one generic reply, and a
\* TypeError out of the catch block when the thrown value has no stack); a
\* rejected promise is dropped by forEach and reaches nobody
handlersRun(d, n, bs) ==
  LET k == handlersCalled(n, bs)
      threw == k > 0 /\ bs[k] \in {"throw", "throwValue"}
      rejected == Cardinality({i \in 1..k : bs[i] = "reject"})
  IN  [NoObservation EXCEPT !.kind = "dispatch", !.client = d.client,
         !.mode = d.mode, !.text = d.text, !.cmd = d.cmd, !.target = d.target,
         !.arguments = IF k > 0 THEN d.arguments ELSE <<>>,
         !.named = d.named, !.namedEnabled = d.namedEnabled,
         !.validation = d.validation,
         !.outcome = IF threw THEN "Error" ELSE "ok",
         !.calls = k,
         !.failed = rejected + (IF threw THEN 1 ELSE 0),
         !.replies = IF threw THEN 1 ELSE 0,
         !.escaped = rejected + (IF k > 0 /\ bs[k] = "throwValue" THEN 1 ELSE 0)]

\* a faulty dispatch, to show what GroupThrottleOwnPathOnly rules out: the
\* Throttle of the group named in the chat line is consulted for its child
dispatched_Group(d) == Registered[d.cmd]

\* the command dispatchCommand runs on: the CommandGroup itself on its own
\* handler path, the child found by findCommandByName otherwise
dispatched(d) == Registered[d.target]

\* BaseCommand.dispatchCommand resumed after its await of hasPermission
DispatchCommand(s) ==
  LET d == inflight[s]
      cmd == dispatched(d)
      ht == handleThrottle(cmd, d.client)
  IN  /\ d.pc = "perm"
      /\ inflight' = [inflight EXCEPT ![s] = Idle]
      /\ UNCHANGED <<registry, config, enabled, vinput, voutput, pinput, poutput>>
      /\ IF ~hasPermission(cmd, d.client)
           THEN /\ last' = Failed(d, "PermissionError")
                /\ UNCHANGED <<throttled, timers, clock, uses>>
         ELSE /\ throttled' = ht.throttled
              /\ timers' = ht.timers
              /\ clock' = IF ht.charged THEN refreshedTimes(clock, ht.throttled, timers, d.client)
                          ELSE clock
              /\ uses' = IF ht.charged /\ uses[d.client] >= 0
                           THEN [uses EXCEPT ![d.client] = @ + 1] ELSE uses
              /\ IF ht.error
                   THEN last' = [Failed(d, "ThrottleError") EXCEPT !.charged = ht.charged]
                 ELSE \E bs \in [1..cmd.execHandler -> Behaviours] :
                        last' = [Before(handlersRun(d, cmd.execHandler, bs), d.client)
                                   EXCEPT !.charged = ht.charged]

\* a restorePoints timeout of the Throttle fires for id
Tick(id) ==
  /\ id \in timers
  /\ clock.due[id] <= clock.now
  /\ throttled' = restoredBuckets(throttled, id)
  /\ timers' = refreshTimeout(throttled', timers \ {id}, id)
  /\ clock' = refreshedTimes(fired(clock, id), throttled', timers \ {id}, id)
  /\ uses' = [uses EXCEPT ![id] = IF id \in DOMAIN throttled' THEN -1 ELSE 0]
  /\ last' = NoObservation
  /\ UNCHANGED <<registry, config, enabled, inflight, vinput, voutput, pinput, poutput>>

\* BaseCommand.enable
Enable(id) ==
  /\ ~enabled[id]
  /\ enabled' = [enabled EXCEPT ![id] = TRUE]
  /\ last' = NoObservation
  /\ UNCHANGED <<registry, config, throttled, timers, clock, inflight, uses, vinput, voutput, pinput, poutput>>

\* BaseCommand.disable
Disable(id) ==
  /\ enabled[id]
  /\ enabled' = [enabled EXCEPT ![id] = FALSE]
  /\ last' = NoObservation
  /\ UNCHANGED <<registry, config, throttled, timers, clock, inflight, uses, vinput, voutput, pinput, poutput>>

(***************************************************************************)
(* The permission specification: one command or command group, declared    *)
(* with any permission callbacks up to the bound, is checked for a client  *)
(* by getAvailableCommandsByPermission; the promises of its asynchronous   *)
(* callbacks settle one at a time, in any order.                           *)
(***************************************************************************)
MaxPredicates == 2

\* what a permission callback gives for the client that is checked, at once
\* or through a promise
Answers == {BoolV(TRUE), BoolV(FALSE), NumV(1), Undefined}
Predicates == [answer : Answers, async : BOOLEAN]

allow      == [answer |-> BoolV(TRUE), async |-> FALSE]
deny       == [answer |-> BoolV(FALSE), async |-> FALSE]
allowLater == [answer |-> BoolV(TRUE), async |-> TRUE]
denyLater  == [answer |-> BoolV(FALSE), async |-> TRUE]

\* the children a CommandGroup is declared with, each given by its
\* permission callbacks
ChildLists ==
  {<<>>, <<<<>>>>, <<<<deny>>>>, <<<<deny>>, <<allowLater>>>>,
   <<<<denyLater>>, <<allow, deny>>>>, <<<<allowLater, denyLater>>, <<allow>>>>}

\* the commands that can be checked
Checkable ==
  [kind : {"CommandGroup"}, enabled : BOOLEAN,
   permissionHandler : SeqsUpTo(Predicates, MaxPredicates),
   execHandler : {0, 1}, commands : ChildLists]
  \cup
  [kind : {"Command"}, enabled : BOOLEAN,
   permissionHandler : SeqsUpTo(Predicates, MaxPredicates),
   execHandler : {0, 1}, commands : {<<>>}]

NoCommand ==
  [kind |-> "Command", enabled |-> TRUE, permissionHandler |-> <<>>, execHandler |-> 0,
   commands |-> <<>>]

\* pc: "own" awaits isAllowed of the command, "children" awaits the
\* hasPermission of the children; pending: the promises not yet settled;
\* order: the promises in the order they settled
NoCheck ==
  [pc |-> "idle", asked |-> FALSE, pending |-> {}, order |-> <<>>, allowed |-> FALSE,
   result |-> FALSE, listed |-> FALSE]

\* ToBoolean of a value
Truthy(v) ==
  CASE v.t = "boolean"   -> v.n = 1
    [] v.t = "number"    -> v.n # 0
    [] v.t = "string"    -> v.s # <<>>
    [] v.t = "undefined" -> FALSE
    [] v.t = "object"    -> TRUE

\* this.permissionHandler.map(cb => cb(client)): the promises among the
\* results, named by the command (0: the one checked, c: its child c) and
\* the position of the callback
promises(c, handlers) == {<<c, i>> : i \in {k \in 1..Len(handlers) : handlers[k].async}}

\* what Promise.all resolves to: the values in the order of the callbacks
results(handlers) == [i \in 1..Len(handlers) |-> handlers[i].answer]

\* a faulty every, to show what IsAllowedEveryPredicate rules out: the
\* callback registered last decides
every_Last(res) == res = <<>> \/ Truthy(res[Len(res)])

\* res.every(r => r)
every(res) == \A i \in 1..Len(res) : Truthy(res[i])

\* a faulty some, to show what GroupHasPermission rules out: every child
\* has to be allowed
some_All(res) == \A i \in 1..Len(res) : res[i]

\* (...).some(result => result)
some(res) == \E i \in 1..Len(res) : res[i]

\* Collector.getAvailableCommandsByPermission(client): a disabled command is
\* filtered out, for an enabled one checkPermissions calls hasPermission,
\* which calls isAllowed, which calls every permission callback
GetAvailableCommandsByPermission ==
  /\ poutput.pc = "idle"
  /\ poutput' = IF ~pinput.enabled THEN [poutput EXCEPT !.pc = "done"]
                ELSE [poutput EXCEPT !.pc = "own", !.asked = TRUE,
                                     !.pending = promises(0, pinput.permissionHandler)]
  /\ UNCHANGED <<registry, config, enabled, throttled, timers, clock, inflight, last, uses, vinput, voutput,
                 pinput>>

\* the promise p of a permission callback settles
Settle(p) ==
  /\ p \in poutput.pending
  /\ poutput' = [poutput EXCEPT !.pending = @ \ {p}, !.order = Append(@, p)]
  /\ UNCHANGED <<registry, config, enabled, throttled, timers, clock, inflight, last, uses, vinput, voutput,
                 pinput>>

\* the end of a check: checkPermissions keeps the command if hasPermission
\* resolved to true
checked(result) ==
  [poutput EXCEPT !.pc = "done", !.allowed = every(results(pinput.permissionHandler)),
                  !.result = result, !.listed = result]

\* Promise.all of isAllowed is fulfilled: Command.hasPermission resolves,
\* CommandGroup.hasPermission goes on after its first await
OwnSettled ==
  /\ poutput.pc = "own"
  /\ poutput.pending = {}
  /\ \E allowed \in {every(results(pinput.permissionHandler))} :
       poutput' =
         IF pinput.kind = "Command" THEN checked(allowed)
         ELSE IF ~allowed THEN checked(FALSE)
         ELSE IF pinput.execHandler > 0 THEN checked(TRUE)
         ELSE [poutput EXCEPT
                 !.pc = "children", !.allowed = allowed,
                 !.pending = UNION {promises(c, pinput.commands[c]) :
                                      c \in 1..Len(pinput.commands)}]
  /\ UNCHANGED <<registry, config, enabled, throttled, timers, clock, inflight, last, uses, vinput, voutput,
                 pinput>>

(***************************************************************************)
(* Registration.                                                           *)
(***************************************************************************)
\* the characters the regular expression /\s/ matches, of those a name is
\* made of here
Whitespace == {" ", "\t", "\r", "\n"}

\* a faulty isValidCommandName, to show what InvalidNameRejected rules
\* out: only the length of the name is checked
isValidCommandName_NonEmpty(name) == Len(name) >= 1

\* Collector.isValidCommandName: FALSE where the code throws
isValidCommandName(name) ==
  Len(name) >= 1 /\ \A k \in 1..Len(name) : name[k] \notin Whitespace

\* new Command(name, collector) / new CommandGroup(name, collector): the
\* fields registration reads and writes
NewCommand(kind, name) ==
  [kind |-> kind, name |-> name, availableAlias |-> <<>>, enabled |-> TRUE,
   commands |-> <<>>]

\* Collector.getAvailableCommands over the commands registered so far
getAvailableCommands(commands, name) ==
  LET Keep(cmd) == cmd.enabled /\ toLowerCase(name) \in getCommandNames(cmd)
  IN  SelectSeq(commands, Keep)

\* Collector.isSaveCommand, for a name isValidCommandName accepts
isSaveCommand(commands, name) == getAvailableCommands(commands, name) = <<>>

\* the names a script passes to the registration calls
RegisterNames ==
  {<<>>, <<"a">>, <<"A">>, <<"d">>, <<" ">>, <<"a", "\t">>, <<"\r", "a">>, <<"\n">>}

\* the argument lists a script passes to alias(...)
AliasLists ==
  {<<n>> : n \in RegisterNames} \cup {<<<<"a">>, <<"d">>>>, <<<<"d">>, <<"a", " ">>>>}

\* the latest registration call: its arguments, whether it threw and
\* whether it wrote the WARNING lines
NoCall == [op |-> "none", at |-> 0, names |-> <<>>, thrown |-> FALSE, warned |-> FALSE]

NoRegistry == [commands |-> <<>>, call |-> NoCall]

\* the names registered anywhere: commands, children and aliases
RECURSIVE Size(_)
Size(commands) ==
  IF commands = <<>> THEN 0
  ELSE 1 + Len(Head(commands).availableAlias) + Len(Head(commands).commands)
         + Size(Tail(commands))

\* createCommand(name) / createCommandGroup(name): isSaveCommand, the
\* warning, then Collector.registerCommand / registerCommandGroup
Create(kind, name) ==
  LET call == [NoCall EXCEPT !.op = IF kind = "Command" THEN "createCommand"
                                    ELSE "createCommandGroup",
                             !.names = <<name>>]
  IN  /\ Size(registry.commands) < MaxNames
      /\ registry' =
           IF ~isValidCommandName(toLowerCase(name))
             THEN [registry EXCEPT !.call = [call EXCEPT !.thrown = TRUE]]
           ELSE [commands |-> Append(registry.commands,
                                     NewCommand(kind, toLowerCase(name))),
                 call |-> [call EXCEPT
                             !.warned = ~isSaveCommand(registry.commands, name)]]
      /\ UNCHANGED <<config, enabled, throttled, timers, clock, inflight, last, uses,
                     vinput, voutput, pinput, poutput>>

\* CommandGroup.addCommand(name) on the i-th registered command
AddCommand(i, name) ==
  /\ Size(registry.commands) < MaxNames
  /\ i \in 1..Len(registry.commands)
  /\ registry.commands[i].kind = "CommandGroup"
  /\ \E call \in {[NoCall EXCEPT !.op = "addCommand", !.at = i, !.names = <<name>>]} :
       registry' =
         IF ~isValidCommandName(toLowerCase(name))
           THEN [registry EXCEPT !.call = [call EXCEPT !.thrown = TRUE]]
         ELSE [commands |-> [registry.commands EXCEPT
                               ![i].commands =
                                 Append(@, NewCommand("Command", toLowerCase(name)))],
               call |-> call]
  /\ UNCHANGED <<config, enabled, throttled, timers, clock, inflight, last, uses,
                 vinput, voutput, pinput, poutput>>

\* BaseCommand.alias(...names) on the i-th registered command
Alias(i, names) ==
  LET lower == [k \in 1..Len(names) |-> toLowerCase(names[k])]
      call == [NoCall EXCEPT !.op = "alias", !.at = i, !.names = names]
  IN  /\ Size(registry.commands) + Len(names) <= MaxNames
      /\ i \in 1..Len(registry.commands)
      /\ registry' =
           IF \E k \in 1..Len(lower) : ~isValidCommandName(lower[k])
             THEN [registry EXCEPT !.call = [call EXCEPT !.thrown = TRUE]]
           ELSE [commands |-> [registry.commands EXCEPT ![i].availableAlias = @ \o lower],
                 call |-> call]
      /\ UNCHANGED <<config, enabled, throttled, timers, clock, inflight, last, uses,
                     vinput, voutput, pinput, poutput>>

\* BaseCommand.disable() / enable() on the i-th registered command
Toggle(i) ==
  /\ i \in 1..Len(registry.commands)
  /\ registry' = [commands |-> [registry.commands EXCEPT ![i].enabled = ~@],
                  call |-> [NoCall EXCEPT !.op = "toggle", !.at = i]]
  /\ UNCHANGED <<config, enabled, throttled, timers, clock, inflight, last, uses,
                 vinput, voutput, pinput, poutput>>

\* Promise.all over the children's hasPermission is fulfilled
ChildrenSettled ==
  /\ poutput.pc = "children"
  /\ poutput.pending = {}
  /\ poutput' = checked(some([c \in 1..Len(pinput.commands) |->
                                every(results(pinput.commands[c]))]))
  /\ UNCHANGED <<registry, config, enabled, throttled, timers, clock, inflight, last, uses, vinput, voutput,
                 pinput>>

NoInput == [arguments |-> <<>>, args |-> <<>>]
NoOutput ==
  [op |-> "none", walk |-> WalkStart(<<>>), validate |-> validateCommand(<<>>, <<>>),
   calls |-> 0, leaf |-> Returns(Undefined, <<>>)]

\* the Throttle settings and the script configuration are fixed when the
\* script is loaded
Configured(initial, penalty, notFound) ==
  config = [initial |-> initial, penalty |-> penalty, restore |-> DefaultRestore,
            NOT_FOUND_MESSAGE |-> notFound, ignore |-> {}]

\* the state once the commands are registered, with room for the given
\* number of suspended dispatches
Loaded(slots) ==
  /\ enabled = [id \in CommandIds |-> TRUE]
  /\ throttled = <<>>
  /\ timers = {}
  /\ clock = [now |-> 0, next |-> <<>>, due |-> <<>>, timeouts |-> [id \in Clients |-> 0]]
  /\ inflight = [s \in slots |-> Idle]
  /\ last = NoObservation
  /\ uses = [id \in Clients |-> 0]

Init ==
  /\ Configured(InitialPoints, PenaltyPerCommand, "0")
  /\ Loaded({1})
  /\ vinput = NoInput
  /\ voutput = NoOutput
  /\ pinput = NoCommand
  /\ poutput = NoCheck
  /\ registry = NoRegistry

Next ==
  \/ \E client \in Clients, text \in MessageTexts : MessageHandler(client, ChannelChat, text)
  \/ \E s \in Slots : GroupPermission(s)
  \/ \E s \in Slots : DispatchCommand(s)
  \/ \E id \in Clients : Tick(id)
  \/ \E id \in Togglable : Enable(id)
  \/ \E id \in Togglable : Disable(id)

Spec == Init /\ [][Next]_vars

(***************************************************************************)
(* The permission specification, as declared above.                        *)
(***************************************************************************)
InitPermission ==
  /\ Configured(InitialPoints, PenaltyPerCommand, "0")
  /\ Loaded({1})
  /\ vinput = NoInput
  /\ voutput = NoOutput
  /\ pinput \in Checkable
  /\ poutput = NoCheck
  /\ registry = NoRegistry

NextPermission ==
  \/ GetAvailableCommandsByPermission
  \/ \E p \in poutput.pending : Settle(p)
  \/ OwnSettled
  \/ ChildrenSettled

SpecPermission == InitPermission /\ [][NextPermission]_vars

(***************************************************************************)
(* The group specification: the chat lines addressed to the CommandGroups  *)
(* money and info, two dispatches at a time.                               *)
(***************************************************************************)
InitGroup ==
  /\ Configured(InitialPoints, PenaltyPerCommand, "0")
  /\ Loaded({1, 2})
  /\ vinput = NoInput
  /\ voutput = NoOutput
  /\ pinput = NoCommand
  /\ poutput = NoCheck
  /\ registry = NoRegistry

NextGroup ==
  \/ \E client \in Clients, text \in GroupTexts : MessageHandler(client, ChannelChat, text)
  \/ \E s \in Slots : GroupPermission(s)
  \/ \E s \in Slots : DispatchCommand(s)

SpecGroup == InitGroup /\ [][NextGroup]_vars

(***************************************************************************)
(* The chat specification: the chat lines addressed to pay and say, sent   *)
(* by the clients and by the bot itself in every chat mode, for every      *)
(* setting of the instance's ignore options.  The throttle allows one use. *)
(***************************************************************************)
InitChat ==
  /\ \E ignore \in IgnoreSettings :
       config = [initial |-> PenaltyPerCommand, penalty |-> PenaltyPerCommand,
                 restore |-> DefaultRestore, NOT_FOUND_MESSAGE |-> "0",
                 ignore |-> ignore]
  /\ Loaded({1})
  /\ vinput = NoInput
  /\ voutput = NoOutput
  /\ pinput = NoCommand
  /\ poutput = NoCheck
  /\ registry = NoRegistry

NextChat ==
  \/ \E client \in Clients \cup {Self}, mode \in Modes, text \in ChatTexts :
       MessageHandler(client, mode, text)
  \/ \E s \in Slots : DispatchCommand(s)

SpecChat == InitChat /\ [][NextChat]_vars

(***************************************************************************)
(* The not-found specification: chat lines that name an unknown command,   *)
(* a disabled one and an enabled one, for both settings of                 *)
(* NOT_FOUND_MESSAGE and every choice of commands the script disabled.     *)
(***************************************************************************)
NotFoundSettings == {"0", "1"}

InitNotFound ==
  /\ \E notFound \in NotFoundSettings :
       Configured(InitialPoints, PenaltyPerCommand, notFound)
  /\ \E off \in SUBSET {"ping", "mass", "pay"} :
       enabled = [id \in CommandIds |-> id \notin off]
  /\ throttled = <<>>
  /\ timers = {}
  /\ clock = [now |-> 0, next |-> <<>>, due |-> <<>>, timeouts |-> [id \in Clients |-> 0]]
  /\ inflight = [s \in {1} |-> Idle]
  /\ last = NoObservation
  /\ uses = [id \in Clients |-> 0]
  /\ vinput = NoInput
  /\ voutput = NoOutput
  /\ pinput = NoCommand
  /\ poutput = NoCheck
  /\ registry = NoRegistry

NextNotFound ==
  \/ \E client \in Clients, text \in NotFoundTexts :
       MessageHandler(client, ChannelChat, text)
  \/ \E s \in Slots : DispatchCommand(s)

SpecNotFound == InitNotFound /\ [][NextNotFound]_vars

(***************************************************************************)
(* The registration specification: a script creates commands and command   *)
(* groups, adds children and aliases and toggles commands, with names      *)
(* that are valid, empty, or hold a whitespace character.                  *)
(***************************************************************************)
InitRegister ==
  /\ Configured(InitialPoints, PenaltyPerCommand, "0")
  /\ Loaded({1})
  /\ vinput = NoInput
  /\ voutput = NoOutput
  /\ pinput = NoCommand
  /\ poutput = NoCheck
  /\ registry = NoRegistry

NextRegister ==
  \/ \E kind \in {"Command", "CommandGroup"}, name \in RegisterNames : Create(kind, name)
  \/ \E i \in 1..MaxNames, name \in RegisterNames : AddCommand(i, name)
  \/ \E i \in 1..MaxNames, names \in AliasLists : Alias(i, names)
  \/ \E i \in 1..MaxNames : Toggle(i)

SpecRegister == InitRegister /\ [][NextRegister]_vars

(***************************************************************************)
(* The throttle specification: the throttled command ping alone, two       *)
(* dispatches at a time, every Throttle setting up to the bounds.          *)
(***************************************************************************)
PingTexts == {p.text : p \in {q \in Parsed : q.named = "ping"}}

InitThrottle ==
  /\ \E initial \in 1..MaxInitialPoints, penalty \in 1..MaxPenalty :
       Configured(initial, penalty, "0")
  /\ Loaded({1, 2})
  /\ vinput = NoInput
  /\ voutput = NoOutput
  /\ pinput = NoCommand
  /\ poutput = NoCheck
  /\ registry = NoRegistry

NextThrottle ==
  \/ \E client \in Clients, text \in PingTexts : MessageHandler(client, ChannelChat, text)
  \/ \E s \in Slots : DispatchCommand(s)
  \/ \E id \in Clients : Tick(id)

SpecThrottle == InitThrottle /\ [][NextThrottle]_vars

\* the same with one dispatch at a time and with timeouts that fire: a
\* timeout that stays pending is not put off forever (a use clears it only
\* to set a new one)
InitRestore ==
  /\ \E initial \in 1..MaxInitialPoints, penalty \in 1..MaxPenalty :
       Configured(initial, penalty, "0")
  /\ Loaded({1})
  /\ vinput = NoInput
  /\ voutput = NoOutput
  /\ pinput = NoCommand
  /\ poutput = NoCheck
  /\ registry = NoRegistry

SpecRestore ==
  InitRestore /\ [][NextThrottle]_vars /\ \A id \in Clients : WF_vars(Tick(id))

(***************************************************************************)
(* The bucket specification: a script calls Throttle.throttle for a client *)
(* directly, on whatever bucket the client has, while restoration ticks    *)
(* fire; every Throttle setting up to the bounds.                          *)
(***************************************************************************)
\* a client's bucket is not driven further below zero than this
MaxDebt == 2

\* throttle.throttle(client) is called for the client with uid id
ThrottleUse(id) ==
  /\ id \in DOMAIN throttled => throttled[id].points > 0 - MaxDebt
  /\ \E t \in {throttle(throttled, timers, id)} :
       /\ throttled' = t.throttled
       /\ timers' = t.timers
       /\ clock' = refreshedTimes(clock, t.throttled, timers, id)
       /\ last' = Before([NoObservation EXCEPT !.kind = "throttle", !.client = id,
                                               !.returned = t.returned], id)
  /\ UNCHANGED <<registry, config, enabled, inflight, uses, vinput, voutput, pinput, poutput>>

\* restorePoints(id) runs: the timeout of id fires, or it is called for a uid
\* that has no bucket
RestorePoints(id) ==
  /\ \/ id \in timers /\ clock.due[id] <= clock.now
     \/ id \notin DOMAIN throttled
  /\ throttled' = restoredBuckets(throttled, id)
  /\ timers' = refreshTimeout(throttled', timers \ {id}, id)
  /\ clock' = refreshedTimes(IF id \in timers THEN fired(clock, id) ELSE clock,
                              throttled', timers \ {id}, id)
  /\ last' = Before([NoObservation EXCEPT !.kind = "tick", !.client = id], id)
  /\ UNCHANGED <<registry, config, enabled, inflight, uses, vinput, voutput, pinput, poutput>>

\* time passes
Advance ==
  /\ clock.now < MaxTime
  /\ clock' = [clock EXCEPT !.now = @ + 1]
  /\ last' = NoObservation
  /\ UNCHANGED <<registry, config, enabled, throttled, timers, inflight, uses, vinput, voutput, pinput,
                 poutput>>

\* the Throttle is configured before its first use
InitUse ==
  /\ \E initial \in 1..MaxInitialPoints, penalty \in 0..MaxPenalty, restore \in 1..MaxRestore :
       config = [initial |-> initial, penalty |-> penalty, restore |-> restore,
                 NOT_FOUND_MESSAGE |-> "0", ignore |-> {}]
  /\ Loaded({1})
  /\ vinput = NoInput
  /\ voutput = NoOutput
  /\ pinput = NoCommand
  /\ poutput = NoCheck
  /\ registry = NoRegistry

NextUse ==
  \/ \E id \in Clients : ThrottleUse(id)
  \/ \E id \in Clients : RestorePoints(id)
  \/ Advance

SpecUse == InitUse /\ [][NextUse]_vars

\* the throttled CommandGroup shop and its child, two dispatches at a time,
\* while restoration timeouts fire
InitShop ==
  /\ \E initial \in 1..MaxInitialPoints :
       Configured(initial, PenaltyPerCommand, "0")
  /\ Loaded({1, 2})
  /\ vinput = NoInput
  /\ voutput = NoOutput
  /\ pinput = NoCommand
  /\ poutput = NoCheck
  /\ registry = NoRegistry

NextShop ==
  \/ \E client \in Clients, text \in ShopTexts : MessageHandler(client, ChannelChat, text)
  \/ \E s \in Slots : GroupPermission(s)
  \/ \E s \in Slots : DispatchCommand(s)
  \/ \E id \in Clients : Tick(id)

SpecShop == InitShop /\ [][NextShop]_vars

\* the throttled command with one dispatch at a time while time passes
InitTimed ==
  /\ \E initial \in 1..MaxInitialPoints :
       Configured(initial, PenaltyPerCommand, "0")
  /\ Loaded({1})
  /\ vinput = NoInput
  /\ voutput = NoOutput
  /\ pinput = NoCommand
  /\ poutput = NoCheck
  /\ registry = NoRegistry

NextTimed ==
  \/ \E client \in Clients, text \in PingTexts : MessageHandler(client, ChannelChat, text)
  \/ \E s \in Slots : DispatchCommand(s)
  \/ \E id \in Clients : Tick(id)
  \/ Advance

SpecTimed == InitTimed /\ [][NextTimed]_vars

(***************************************************************************)
(* The validation specification: Command.validateArgs and Command.validate *)
(* applied to every text up to MaxTextLen, for every argument list.        *)
(***************************************************************************)
\* cmd.validateArgs(args) is called
ValidateArgs ==
  /\ voutput.op = "none"
  /\ voutput' = [voutput EXCEPT !.op = "validateArgs",
                   !.walk = validateArgs(vinput.arguments, vinput.args)]
  /\ UNCHANGED <<registry, config, enabled, throttled, timers, clock, inflight, last, uses, vinput, pinput, poutput>>

\* cmd.validate(args) is called
Validate ==
  /\ voutput.op = "none"
  /\ voutput' = [op |-> "validate",
                 walk |-> validateArgs(vinput.arguments, vinput.args),
                 validate |-> validateCommand(vinput.arguments, vinput.args),
                 calls |-> 0, leaf |-> voutput.leaf]
  /\ UNCHANGED <<registry, config, enabled, throttled, timers, clock, inflight, last, uses, vinput, pinput, poutput>>

\* cmd.dispatch(args, ev) is called on a Command with one execution handler,
\* no permission predicate and no Throttle: validate runs while the event of
\* dispatchCommand is built, and the handler is called if it did not throw
Dispatch ==
  /\ voutput.op = "none"
  /\ \E v \in {validateCommand(vinput.arguments, vinput.args)} :
       voutput' = [op |-> "dispatch",
                   walk |-> validateArgs(vinput.arguments, vinput.args),
                   validate |-> v,
                   calls |-> IF v.kind = "ok" THEN 1 ELSE 0, leaf |-> voutput.leaf]
  /\ UNCHANGED <<registry, config, enabled, throttled, timers, clock, inflight, last, uses, vinput, pinput, poutput>>

\* arg.validate(args) is called on the one argument declared
ValidateLeaf ==
  /\ voutput.op = "none"
  /\ Len(vinput.arguments) = 1
  /\ voutput' = [voutput EXCEPT !.op = "argument",
                   !.leaf = validate(vinput.arguments[1], vinput.args)]
  /\ UNCHANGED <<registry, config, enabled, throttled, timers, clock, inflight, last, uses,
                 vinput, pinput, poutput>>

InitValidate ==
  /\ Configured(InitialPoints, PenaltyPerCommand, "0")
  /\ Loaded({1})
  /\ vinput \in [arguments : ArgLists, args : Texts]
  /\ voutput = NoOutput
  /\ pinput = NoCommand
  /\ poutput = NoCheck
  /\ registry = NoRegistry

NextValidate == ValidateArgs \/ Validate \/ Dispatch

SpecValidate == InitValidate /\ [][NextValidate]_vars

(***************************************************************************)
(* The leaf specification: one leaf argument is declared; validate is      *)
(* applied to it directly and through a Command, on a token alone and on a *)
(* token with trailing text.                                               *)
(***************************************************************************)
InitLeaf ==
  /\ Configured(InitialPoints, PenaltyPerCommand, "0")
  /\ Loaded({1})
  /\ vinput \in [arguments : {<<arg>> : arg \in LeafArguments}, args : LeafTexts]
  /\ voutput = NoOutput
  /\ pinput = NoCommand
  /\ poutput = NoCheck
  /\ registry = NoRegistry

NextLeaf == ValidateLeaf \/ Validate \/ Dispatch

SpecLeaf == InitLeaf /\ [][NextLeaf]_vars

(***************************************************************************)
(* Properties of Command.validateArgs and Command.validate, checked under *)
(* SpecValidate.                                                           *)
(***************************************************************************)
\* the steps of the walk that voutput reports
WalkSteps == voutput.walk.steps

\* step i of the walk is an optional argument whose validate threw
OptionalFailed(i) == WalkSteps[i].opt /\ WalkSteps[i].st = "throw"

ValidateTooManyArguments ==
  voutput.op = "validate" =>
    LET requiredFailed ==
          \E i \in 1..Len(WalkSteps) : ~WalkSteps[i].opt /\ WalkSteps[i].st # "ok"
        processed == /\ Len(WalkSteps) = Len(vinput.arguments)
                     /\ voutput.walk.thrown.kind = "none"
        remaining == IF WalkSteps = <<>> THEN Trim(vinput.args)
                     ELSE WalkSteps[Len(WalkSteps)].after
        failedOptional == {i \in 1..Len(WalkSteps) : OptionalFailed(i)}
        first == CHOOSE i \in failedOptional : \A j \in failedOptional : i <= j
    IN  /\ voutput.validate.kind = "TooManyArgumentsError"
             <=> (~requiredFailed /\ processed /\ remaining # <<>>)
        /\ voutput.validate.kind = "TooManyArgumentsError" =>
             voutput.validate.parseError =
               IF failedOptional = {} THEN NoError ELSE WalkSteps[first].err

\* validate raised TooManyArgumentsError after two optional arguments had
\* failed, and once after none had
ValidateTooManyArgumentsWitness ==
  /\ voutput.op = "validate"
  /\ voutput.validate.kind = "TooManyArgumentsError"
  /\ Cardinality({i \in 1..Len(WalkSteps) : OptionalFailed(i)}) = 2
  /\ voutput.validate.parseError = WalkSteps[1].err

\* the latest operation was applied to the Command declaring exactly args
Declares(arguments) == voutput.op # "none" /\ vinput.arguments = arguments

\* C11 as stated (Scenario A): with the single optional number `amount`
\* (min 1, max 10, default 1) the texts "", "5" and "11" all resolve, "11"
\* to the default {amount: 1} with no leftover text, and the handler runs.
ScenarioAFallbackSucceeds ==
  (Declares(<<amount>>) /\ voutput.op = "dispatch"
     /\ vinput.args \in {<<>>, <<"5">>, <<"1", "1">>}) =>
    /\ voutput.validate.kind = "ok"
    /\ voutput.validate.result =
         ("amount" :> IF vinput.args = <<"5">> THEN NumV(5) ELSE NumV(1))
    /\ voutput.calls = 1

\* C11 as the code has it: "" resolves {amount: 1} and "5" resolves
\* {amount: 5}, and the handler runs; on "11" the walk falls back to the
\* default 1 but consumes nothing, so "11" is left over: validate raises
\* TooManyArgumentsError carrying the max ParseError and no handler runs.
ScenarioAOptionalAmount ==
  (Declares(<<amount>>) /\ voutput.op = "dispatch") =>
    /\ vinput.args = <<>> =>
         /\ voutput.validate.kind = "ok"
         /\ voutput.validate.result = ("amount" :> NumV(1))
         /\ voutput.calls = 1
    /\ vinput.args = <<"5">> =>
         /\ voutput.validate.kind = "ok"
         /\ voutput.validate.result = ("amount" :> NumV(5))
         /\ voutput.calls = 1
    /\ vinput.args = <<"1", "1">> =>
         /\ voutput.walk.result = ("amount" :> NumV(1))
         /\ voutput.walk.args = <<"1", "1">>
         /\ voutput.validate.kind = "TooManyArgumentsError"
         /\ voutput.validate.parseError = ParseError("max", amount)
         /\ voutput.calls = 0

\* the Command of Scenario A was dispatched on "11" and refused it
ScenarioAOptionalAmountWitness ==
  /\ Declares(<<amount>>)
  /\ voutput.op = "dispatch"
  /\ vinput.args = <<"1", "1">>
  /\ voutput.validate.kind = "TooManyArgumentsError"

GroupSteps(type) == {i \in 1..Len(WalkSteps) : WalkSteps[i].arg.type = type}

\* C13: a GroupArgument in AND mode that does not succeed fails by raising
\* a ParseError, so that validateArgs treats it like any other failed
\* Argument: an optional group falls back to its default and leaves the
\* text alone, a required group aborts the walk with that ParseError.
GroupAndFailsByRaising ==
  voutput.op # "none" =>
    \A i \in GroupSteps("and") :
      /\ WalkSteps[i].st \in {"ok", "throw"}
      /\ WalkSteps[i].st # "ok" =>
           /\ WalkSteps[i].err.kind = "ParseError"
           /\ IF WalkSteps[i].opt
                THEN /\ WalkSteps[i].recorded = WalkSteps[i].arg.default
                     /\ WalkSteps[i].after = WalkSteps[i].given
                     /\ WalkSteps[i].errors # <<>>
                ELSE voutput.walk.thrown = WalkSteps[i].err

\* the first child of the group, in declaration order, that validates the
\* text, or 0
firstValid(group, text) ==
  LET valid == {k \in 1..Len(group.children) : validate(group.children[k], text).st = "ok"}
  IN  IF valid = {} THEN 0 ELSE CHOOSE k \in valid : \A j \in valid : k <= j

\* C14: a GroupArgument in OR mode succeeds iff some child validates the
\* text it is given; its value then holds the value of the first such child
\* in declaration order under that child's name and nothing else, the text
\* left is what that child left, and when no child validates it throws the
\* ParseError "No valid match found" attributed to the group.
GroupOrFirstMatch ==
  voutput.op # "none" =>
    \A i \in GroupSteps("or") :
      \E k \in {firstValid(WalkSteps[i].arg, WalkSteps[i].given)} :
        IF k = 0
          THEN /\ WalkSteps[i].st = "throw"
               /\ WalkSteps[i].err = ParseError("No valid match found", WalkSteps[i].arg)
          ELSE \E r \in {validate(WalkSteps[i].arg.children[k], WalkSteps[i].given)} :
                 /\ WalkSteps[i].st = "ok"
                 /\ WalkSteps[i].val =
                      ObjV(SetProp(<<>>, WalkSteps[i].arg.children[k].name, r.val))
                 /\ WalkSteps[i].after = Trim(r.rest)

\* an OR group was given a text both of its children validate
GroupOrFirstMatchWitness ==
  /\ voutput.op # "none"
  /\ \E i \in GroupSteps("or") :
       /\ \A k \in 1..Len(WalkSteps[i].arg.children) :
            validate(WalkSteps[i].arg.children[k], WalkSteps[i].given).st = "ok"
       /\ Len(WalkSteps[i].arg.children) = 2
       /\ WalkSteps[i].st = "ok"

\* C15: what the children of a GroupArgument resolved is found in the
\* Command's resolved map under each child's own name, next to the
\* top-level entries, and nothing is stored under the group's name.
GroupValuesFlattened ==
  (voutput.op \in {"validate", "dispatch"} /\ voutput.validate.kind = "ok") =>
    \A i \in GroupSteps("or") \cup GroupSteps("and") :
      WalkSteps[i].st = "ok" =>
        /\ WalkSteps[i].name \notin DOMAIN voutput.validate.result
        /\ \A c \in DOMAIN WalkSteps[i].val.m :
             /\ c \in DOMAIN voutput.validate.result
             /\ voutput.validate.result[c] = WalkSteps[i].val.m[c]

(***************************************************************************)
(* Properties of the throttle step, checked under SpecThrottle.            *)
(***************************************************************************)
\* ceil(initial / penalty)
CeilUses == (config.initial + config.penalty - 1) \div config.penalty

\* the latest step finished a dispatch of a throttled command
ThrottledDispatch ==
  /\ last.kind = "dispatch"
  /\ last.target # ""
  /\ Registered[last.target].throttle

\* the points of the client's bucket before and after the latest step
PointsBefore ==
  IF last.bucketBefore = {} THEN config.initial ELSE CHOOSE b \in last.bucketBefore : TRUE
PointsNow ==
  IF last.client \in DOMAIN throttled THEN throttled[last.client].points ELSE config.initial

\* C4: with initialPoints N and penaltyPerCommand p, and no restoration tick
\* since the bucket was created, the dispatches of one identity that pass
\* validation and permission invoke the handler exactly ceil(N/p) times;
\* every further one fails with ThrottleError without invoking the handler.
ThrottleAllowsCeilUses ==
  /\ \A id \in Clients :
       uses[id] >= 0 =>
         /\ uses[id] <= CeilUses
         /\ isThrottled(throttled, id) <=> uses[id] = CeilUses
  /\ (ThrottledDispatch /\ last.validation = "ok" /\ last.usesBefore >= 0
        /\ isAllowed(Registered[last.target], last.client)) =>
       IF last.usesBefore < CeilUses
         THEN /\ last.calls = Registered[last.target].execHandler
              /\ last.outcome # "ThrottleError"
              /\ uses[last.client] = last.usesBefore + 1
       ELSE /\ last.outcome = "ThrottleError"
            /\ last.calls = 0
            /\ uses[last.client] = last.usesBefore

\* with N = 3 and p = 2 the third dispatch in a row was refused
ThrottleAllowsCeilUsesWitness ==
  /\ config.initial = 3
  /\ config.penalty = 2
  /\ ThrottledDispatch
  /\ last.usesBefore = 2
  /\ last.outcome = "ThrottleError"
  /\ last.calls = 0

\* C5 as stated: the throttle step deducts first and checks afterwards, so
\* the dispatch whose deduction leaves the bucket at or below zero itself
\* fails with ThrottleError and invokes no handler.
ThrottleDeductsThenChecks ==
  (ThrottledDispatch /\ PointsNow = PointsBefore - config.penalty /\ PointsNow <= 0) =>
    /\ last.outcome = "ThrottleError"
    /\ last.calls = 0

\* C5 as the code has it: the throttle step checks the bucket first and
\* deducts afterwards.  A dispatch that finds the bucket at or below zero
\* fails with ThrottleError, deducts nothing and invokes no handler; every
\* other dispatch that reaches the step deducts one penalty and goes on to
\* its handlers, also when the deduction leaves the bucket at or below zero.
ThrottleChecksThenDeducts ==
  ThrottledDispatch =>
    /\ last.outcome = "ThrottleError" =>
         /\ last.throttledBefore
         /\ PointsBefore <= 0
         /\ ~last.charged
         /\ PointsNow = PointsBefore
         /\ last.calls = 0
    /\ last.outcome \in {"ok", "Error"} =>
         /\ ~last.throttledBefore
         /\ PointsBefore > 0
         /\ last.charged
         /\ PointsNow = PointsBefore - config.penalty
         /\ last.calls = Registered[last.target].execHandler
    /\ last.charged => last.outcome \in {"ok", "Error"}

\* a dispatch took the bucket to zero or below and its handler still ran
ThrottleChecksThenDeductsWitness ==
  /\ ThrottledDispatch
  /\ last.charged
  /\ PointsNow <= 0
  /\ last.outcome = "ok"
  /\ last.calls = 1

\* C6: the throttle is consulted before the arguments are validated: an
\* allowed identity that is throttled gets ThrottleError whatever its text,
\* and an allowed identity that is not throttled is charged one penalty even
\* when validation fails.
ThrottleBeforeValidation ==
  (ThrottledDispatch /\ isAllowed(Registered[last.target], last.client)) =>
    /\ last.throttledBefore => last.outcome = "ThrottleError"
    /\ (~last.throttledBefore /\ last.validation # "ok") =>
         PointsNow = PointsBefore - config.penalty

(***************************************************************************)
(* Properties of message handling, checked under Spec.                     *)
(***************************************************************************)
\* the latest step finished the dispatch of a command the message named
Dispatched == last.kind = "dispatch" /\ last.target # ""

\* C1: permission is decided before argument validation: a dispatch of a
\* Command by an identity its permission predicates reject fails with
\* PermissionError whatever the argument text is, and invokes no handler.
PermissionBeforeValidation ==
  (Dispatched /\ Registered[last.target].kind = "Command"
     /\ ~isAllowed(Registered[last.target], last.client)) =>
    /\ last.outcome = "PermissionError"
    /\ last.calls = 0

\* C2: while a command is disabled no message invokes its handlers, be it a
\* top-level command or a child reached through its CommandGroup.
DisabledNeverRuns ==
  (Dispatched /\ last.named = last.target
     /\ ~last.namedEnabled /\ ~enabled[last.target]) =>
    last.calls = 0

\* C3: a child's handler runs through its CommandGroup only if the group's
\* and the child's predicates all allow the identity; a dispatch to a denied
\* child yields PermissionError and no handler call.
GroupAndChildPermission ==
  (Dispatched /\ Registered[last.cmd].kind = "CommandGroup" /\ last.target # last.cmd) =>
    /\ last.calls > 0 =>
         /\ isAllowed(Registered[last.cmd], last.client)
         /\ isAllowed(Registered[last.target], last.client)
    /\ ~isAllowed(Registered[last.target], last.client) =>
         /\ last.outcome = "PermissionError"
         /\ last.calls = 0

\* C7: no failure escapes message handling: every error raised while a
\* resolved command is dispatched, a handler's synchronous throw and its
\* rejected promise included, is caught and answered with a reply.
FailuresAnswered ==
  last.kind = "dispatch" =>
    /\ (last.outcome # "ok" \/ last.failed > 0) => last.replies >= 1
    /\ last.escaped = 0

\* the errors of the taxonomy a dispatch can end with
TaxonomyErrors ==
  {"ParseError", "TooManyArgumentsError", "PermissionError", "ThrottleError",
   "CommandNotFoundError"}

\* C8: a message has one outcome for each command it resolves to: the
\* command's handlers are invoked or one error reply is sent; a reply for a
\* taxonomy error means no handler of the command was invoked.
OneOutcome ==
  last.kind = "dispatch" =>
    /\ last.calls > 0 \/ last.replies = 1
    /\ last.replies <= 1
    /\ last.outcome \in TaxonomyErrors => (last.calls = 0 /\ last.replies = 1)

(***************************************************************************)
(* Properties of CommandGroup.dispatch, checked under SpecGroup.           *)
(***************************************************************************)
\* the latest step ended the dispatch of a chat line that names a
\* CommandGroup the client has permission for
GroupDispatched ==
  /\ last.kind = "dispatch"
  /\ Registered[last.cmd].kind = "CommandGroup"
  /\ hasPermission(Registered[last.cmd], last.client)

\* the sub-command token of that chat line and the text after it
SubToken == FirstToken(argsOf(last.text))
SubRest == AfterFirstToken(argsOf(last.text))

\* the children of the group, in declaration order, one of whose names or
\* aliases is the token in lower case
Matching ==
  LET group == Registered[last.cmd]
  IN  {i \in 1..Len(group.commands) :
         toLowerCase(SubToken) \in getCommandNames(Registered[group.commands[i]])}

\* C16: with a non-empty first token CommandGroup.dispatch resolves the
\* token case-insensitively against the names and aliases of its children
\* and dispatches the first matching child on the remaining text: what is
\* validated is that text against that child's Arguments, only handlers of
\* that child are called and they receive what it resolved ("!money ADD 5"
\* runs add with {count: 5}); with no matching child the dispatch fails with
\* CommandNotFoundError, is answered, and no handler is called.
GroupDispatchResolvesChild ==
  (GroupDispatched /\ Len(SubToken) > 0) =>
    IF Matching = {}
      THEN /\ last.outcome = "CommandNotFoundError"
           /\ last.calls = 0
           /\ last.replies = 1
    ELSE \E i \in Matching :
           \E v \in {validateCommand(Registered[Registered[last.cmd].commands[i]].arguments,
                                     SubRest)} :
             /\ \A j \in Matching : i <= j
             /\ last.target = Registered[last.cmd].commands[i]
             /\ last.outcome # "CommandNotFoundError"
             /\ last.validation = v.kind
             /\ v.kind # "ok" => last.outcome = v.kind /\ last.calls = 0
             /\ last.calls <= Registered[last.target].execHandler
             /\ last.calls > 0 => last.arguments = v.result
             /\ (last.text = BANG \o MONEY \o SP \o <<"A", "D", "D">> \o SP \o <<"5">>
                   /\ last.outcome = "ok") =>
                  /\ last.target = "add"
                  /\ last.calls = 1
                  /\ last.arguments = ("count" :> NumV(5))

\* the child add was reached through its alias typed in upper case, and
\* its handler ran on the text after the alias
GroupDispatchResolvesChildWitness ==
  /\ GroupDispatched
  /\ SubToken = <<"A">>
  /\ last.target = "add"
  /\ last.calls = 1
  /\ last.arguments = ("count" :> NumV(5))

\* C17: CommandGroup.dispatch with an empty sub-command token calls the
\* group's own handler with an empty argument map when there is one, and
\* fails with CommandNotFoundError, answered with a reply, when there is
\* none.
GroupEmptyTokenHandledOrFails ==
  (GroupDispatched /\ Len(SubToken) = 0) =>
    IF Registered[last.cmd].execHandler > 0
      THEN /\ last.target = last.cmd
           /\ last.calls >= 1
           /\ last.arguments = <<>>
    ELSE /\ last.outcome = "CommandNotFoundError"
         /\ last.calls = 0
         /\ last.replies = 1

(***************************************************************************)
(* Properties of the permission check, checked under SpecPermission.       *)
(***************************************************************************)
\* the answers of the callbacks, whatever their order of registration
AnswerSet(handlers) == {handlers[i].answer : i \in 1..Len(handlers)}

\* no callback among handlers gave false or undefined
NoneDenies(handlers) == AnswerSet(handlers) \cap {BoolV(FALSE), Undefined} = {}

\* C19: isAllowed resolves to true iff every registered permission
\* predicate returned or resolved to a truthy value (true with no
\* predicates); one falsy answer denies, whatever the order the predicates
\* were registered in and whatever the order their promises settled in.
IsAllowedEveryPredicate ==
  (poutput.asked /\ poutput.pc \in {"children", "done"}) =>
    poutput.allowed = NoneDenies(pinput.permissionHandler)

\* two asynchronous predicates settled in the reverse of their registration
\* order, the one registered first allows, the other denies: not allowed
IsAllowedEveryPredicateWitness ==
  /\ poutput.pc = "done"
  /\ Len(pinput.permissionHandler) = 2
  /\ Truthy(pinput.permissionHandler[1].answer)
  /\ ~Truthy(pinput.permissionHandler[2].answer)
  /\ poutput.order = <<<<0, 2>>, <<0, 1>>>>
  /\ ~poutput.allowed

\* C18: CommandGroup.hasPermission is true iff all of the group's own
\* predicates allow the client and the group has an execution handler of
\* its own or a child all of whose predicates allow the client; the
\* permission-filtered listing keeps the group exactly then.
GroupHasPermission ==
  (poutput.pc = "done" /\ pinput.kind = "CommandGroup") =>
    /\ poutput.asked =>
         poutput.result =
           /\ NoneDenies(pinput.permissionHandler)
           /\ \/ pinput.execHandler > 0
              \/ \E c \in 1..Len(pinput.commands) : NoneDenies(pinput.commands[c])
    /\ poutput.listed = (poutput.asked /\ poutput.result)

\* a group whose own predicates allow the client, without a handler of its
\* own and with children none of which is allowed, was refused
GroupHasPermissionWitness ==
  /\ poutput.pc = "done"
  /\ poutput.asked
  /\ pinput.kind = "CommandGroup"
  /\ pinput.permissionHandler # <<>>
  /\ NoneDenies(pinput.permissionHandler)
  /\ pinput.execHandler = 0
  /\ Len(pinput.commands) = 2
  /\ ~poutput.result
  /\ ~poutput.listed

(***************************************************************************)
(* Properties of Throttle.throttle, checked under SpecUse.                 *)
(***************************************************************************)
\* the points the client of the latest throttle call had to spend: those of
\* its bucket, or initialPoints when it had no bucket
PointsToSpend ==
  IF last.bucketBefore = {} THEN config.initial
  ELSE CHOOSE points \in last.bucketBefore : TRUE

\* C20: Throttle.throttle(client) creates the client's bucket at the
\* initial points when there is none, subtracts the penalty of one use from
\* it, sets the client's restoration timeout, and returns true iff the
\* points left are at or below zero.
ThrottleUseDeducts ==
  last.kind = "throttle" =>
    /\ last.client \in DOMAIN throttled
    /\ throttled[last.client].points = PointsToSpend - config.penalty
    /\ last.client \in timers
    /\ last.returned = (PointsToSpend - config.penalty <= 0)

\* a call created the bucket and left it with points to spend; another
\* client's bucket was already used up
ThrottleUseDeductsWitness ==
  /\ last.kind = "throttle"
  /\ last.bucketBefore = {}
  /\ ~last.returned
  /\ throttled[last.client].points = config.initial - config.penalty
  /\ \E id \in DOMAIN throttled : throttled[id].points <= 0

\* C21: with the Throttle configured before its first use and a penalty
\* that is not negative, no recorded bucket ever holds more than the
\* initial points, and a uid without a bucket is not throttled.
BucketsWithinInitial ==
  /\ \A id \in DOMAIN throttled : throttled[id].points <= config.initial
  /\ \A id \in Clients \ DOMAIN throttled : ~isThrottled(throttled, id)

\* a tick left a bucket one restoration short of full while another client
\* has no bucket
BucketsWithinInitialWitness ==
  /\ last.kind = "tick"
  /\ last.client \in DOMAIN throttled
  /\ throttled[last.client].points + config.restore >= config.initial
  /\ Clients \ DOMAIN throttled # {}

\* C22: a restoration tick for a uid adds restorePerTick to its bucket; if
\* that reaches the initial points the bucket is deleted and no timeout is
\* left for the uid, otherwise the bucket keeps the sum and a new timeout is
\* set; a tick for a uid without a bucket changes neither buckets nor
\* timeouts; the buckets of other uids are never touched.
RestoreTickRule ==
  [][last'.kind = "tick" =>
       \E id \in {last'.client} :
         /\ \A other \in Clients \ {id} :
              /\ other \in DOMAIN throttled' <=> other \in DOMAIN throttled
              /\ other \in DOMAIN throttled => throttled'[other] = throttled[other]
              /\ other \in timers' <=> other \in timers
         /\ IF id \notin DOMAIN throttled
              THEN throttled' = throttled /\ timers' = timers
            ELSE IF throttled[id].points + config.restore >= config.initial
              THEN id \notin DOMAIN throttled' /\ id \notin timers'
            ELSE /\ id \in DOMAIN throttled'
                 /\ throttled'[id].points = throttled[id].points + config.restore
                 /\ id \in timers']_vars

\* a tick found a bucket that a restoration fills and deleted it
RestoreTickRuleWitness ==
  /\ last.kind = "tick"
  /\ last.bucketBefore # {}
  /\ \A points \in last.bucketBefore : points + config.restore = config.initial
  /\ last.client \notin DOMAIN throttled
  /\ last.client \notin timers

(***************************************************************************)
(* Restoration in the long run, checked under SpecRestore.                 *)
(***************************************************************************)
\* the latest step was a dispatch of the client that was charged a use
ChargedNow(id) == last.kind = "dispatch" /\ last.client = id /\ last.charged

\* C23: with a positive restorePerTick and timeouts that fire, a throttled
\* client is eventually not throttled, and a client with a bucket
\* eventually has no bucket unless it is charged another use: no bucket
\* stays in the map for a client that has stopped issuing commands.
ThrottledEventuallyRestored ==
  \A id \in Clients :
    /\ isThrottled(throttled, id) ~> ~isThrottled(throttled, id)
    /\ (id \in DOMAIN throttled) ~> (id \notin DOMAIN throttled \/ ChargedNow(id))

\* a client is throttled, its points used up, and its timeout is pending
ThrottledEventuallyRestoredWitness ==
  \E id \in Clients :
    /\ isThrottled(throttled, id)
    /\ throttled[id].points + config.restore < config.initial
    /\ id \in timers

\* C24: timeTillNextCommand gives the time left until the client's next
\* restoration tick: the recorded next is the moment the pending timeout
\* is due, and the result is 0 for every client that is not throttled, a
\* client with points left in its bucket included.
TimeTillNextCommandIsTimeToTick ==
  \A id \in Clients :
    /\ id \in timers => clock.next[id] = clock.due[id]
    /\ ~isThrottled(throttled, id) => timeTillNextCommand(id) = 0
    /\ isThrottled(throttled, id) => timeTillNextCommand(id) = clock.due[id] - clock.now

\* C25: when a Command with several execution handlers has passed
\* permission, throttle and validation, every one of its handlers is
\* called, once and in declaration order, also when one of them fails.
AllHandlersInvoked ==
  (/\ last.kind = "dispatch"
   /\ last.outcome \in {"ok", "Error"}
   /\ Registered[last.target].kind = "Command"
   /\ Registered[last.target].execHandler > 1) =>
    last.calls = Registered[last.target].execHandler

\* a chat event that passed the instance's ignore settings and was not sent
\* by the bot itself has been handled
Heard == last.kind # "none" /\ last.client # Self /\ last.mode \notin config.ignore

\* the commands registered under a forced prefix
Forced == {id \in {TopLevel[i] : i \in 1..Len(TopLevel)} : Len(Registered[id].prefix) > 0}

\* C26: command resolution is case-insensitive: a message whose first token
\* is a command's prefix followed by any letter-case variant of its name or
\* of one of its aliases invokes that command's handlers exactly once, for
\* commands with the default prefix and with a forced prefix alike (the
\* sender not being throttled).
CaseInsensitiveResolution ==
  \A id \in {"pay", "say"} :
    (/\ Heard
     /\ ~last.throttledBefore
     /\ toLowerCase(FirstToken(last.text)) \in getFullCommandNames(Registered[id])) =>
      (last.kind = "dispatch" /\ last.target = id /\ last.calls = 1)

\* C27: a command with a forced prefix P is invoked by the token P+name
\* and by P+alias for each of its aliases, and by no other prefix: the
\* default prefix followed by its name or alias never calls its handlers.
ForcedPrefixOnly ==
  \A id \in Forced :
    /\ (Heard /\ FirstToken(last.text) \in
                  {Registered[id].prefix \o n : n \in getCommandNames(Registered[id])}) =>
         (last.kind = "dispatch" /\ last.target = id /\ last.calls = 1)
    /\ (last.kind = "dispatch" /\ last.target = id) =>
         startsWith(last.text, Registered[id].prefix)
    /\ (Heard /\ FirstToken(last.text) \in
                  {getCommandPrefix \o n : n \in getCommandNames(Registered[id])}) =>
         (last.kind = "notfound" /\ last.calls = 0)

\* pay was called through its alias with the forced prefix
ForcedPrefixOnlyWitness ==
  /\ last.kind = "dispatch"
  /\ last.target = "pay"
  /\ last.text = DOLLAR \o <<"p">>
  /\ last.calls = 1

\* the text starts with the default prefix, or its first token is a full
\* name of a command with a forced prefix
PossibleText(text) ==
  \/ startsWith(text, getCommandPrefix)
  \/ \E id \in Forced :
       FirstToken(text) \in
         {Registered[id].prefix \o n : n \in getCommandNames(Registered[id])}

\* the chat event is one messageHandler is to leave alone
Unheard(client, mode, text) ==
  client = Self \/ mode \in config.ignore \/ ~PossibleText(text)

\* C30: a message sent by the bot itself, a message in a chat mode the
\* instance is configured to ignore, and a text that is no possible command
\* cause no handler call, no reply and no change to any throttle bucket:
\* the event ends ignored, no dispatch of it is ever in flight, and the
\* step that ignores it leaves buckets, timeouts and dispatches as they are.
IgnoredHasNoEffect ==
  /\ []((last.kind # "none" /\ Unheard(last.client, last.mode, last.text)) =>
          (last.kind = "ignored" /\ last.calls = 0 /\ last.replies = 0))
  /\ [](\A s \in Slots :
          inflight[s].pc # "idle" =>
            ~Unheard(inflight[s].client, inflight[s].mode, inflight[s].text))
  /\ [][last'.kind = "ignored" =>
          UNCHANGED <<throttled, timers, clock, inflight>>]_vars

\* the bot's own "!say" was ignored while alice has a throttle bucket
IgnoredHasNoEffectWitness ==
  /\ last.kind = "ignored"
  /\ last.client = Self
  /\ last.text = BANG \o SAY
  /\ last.mode \notin config.ignore
  /\ "alice" \in DOMAIN throttled

\* the registration calls that take names
Registering == {"createCommand", "createCommandGroup", "addCommand", "alias"}

\* the names and aliases registered in the scope the call adds to: the
\* children of the group for addCommand, the top-level commands otherwise
ScopeNames(commands, call) ==
  LET scope == IF call.op = "addCommand" THEN commands[call.at].commands ELSE commands
  IN  UNION {getCommandNames(scope[k]) : k \in 1..Len(scope)}

\* the call registers a name that its scope already holds
Duplicates(commands, call) ==
  /\ call.op \in Registering
  /\ ~call.thrown
  /\ \E k \in 1..Len(call.names) :
       toLowerCase(call.names[k]) \in ScopeNames(commands, call)

\* C28: registering a top-level command, a CommandGroup child or an alias
\* under a name that its scope already holds as a name or alias, in any
\* letter case, is accepted, both entries stay registered, and a warning
\* is written, whether or not the earlier entry is enabled.
DuplicateAcceptedAndWarned ==
  [][Duplicates(registry.commands, registry'.call) =>
       /\ Size(registry'.commands) = Size(registry.commands) + Len(registry'.call.names)
       /\ registry'.call.warned]_vars

\* the name is empty or holds a space, tab, carriage return or newline
InvalidName(name) ==
  name = <<>> \/ \E k \in 1..Len(name) : name[k] \in {" ", "\t", "\r", "\n"}

\* C29: createCommand, createCommandGroup, CommandGroup.addCommand and
\* alias() throw for a name that is empty or holds a whitespace character,
\* and the rejected call leaves the registry as it was: no command is
\* added and no alias of the call is recorded.
InvalidNameRejected ==
  [][(/\ registry'.call.op \in Registering
      /\ \E k \in 1..Len(registry'.call.names) : InvalidName(registry'.call.names[k])) =>
       /\ registry'.call.thrown
       /\ registry'.commands = registry.commands]_vars

\* alias("d", "a ") on a registered command threw, and neither alias is
\* recorded
InvalidNameRejectedWitness ==
  /\ registry.call.op = "alias"
  /\ registry.call.names = <<<<"d">>, <<"a", " ">>>>
  /\ registry.call.thrown
  /\ Len(registry.commands) = 1
  /\ registry.commands[1].availableAlias = <<>>

\* the text is a possible command whose command token is a full name of no
\* enabled top-level command
Unresolved(text) ==
  /\ PossibleText(text)
  /\ ~\E i \in 1..Len(TopLevel) :
        /\ enabled[TopLevel[i]]
        /\ toLowerCase(FirstToken(text)) \in
             {getPrefix(Registered[TopLevel[i]]) \o n :
                n \in getCommandNames(Registered[TopLevel[i]])}

\* C31: when the command token of a possible command resolves to no
\* enabled registered command, no handler runs and no throttle is charged;
\* one not-found reply is sent when NOT_FOUND_MESSAGE is YES ("0") and none
\* when it is NO ("1").
NotFoundPolicy ==
  /\ []((last.kind # "none" /\ Unresolved(last.text)) =>
          /\ last.kind = "notfound"
          /\ last.calls = 0
          /\ ~last.charged
          /\ last.replies = IF config.NOT_FOUND_MESSAGE = "0" THEN 1 ELSE 0)
  /\ [](\A s \in Slots : inflight[s].pc # "idle" => ~Unresolved(inflight[s].text))
  /\ [][last'.kind = "notfound" =>
          UNCHANGED <<throttled, timers, clock, inflight>>]_vars

\* alice, who holds a throttle bucket, named a disabled command while the
\* setting is NO: nothing was replied
NotFoundPolicyWitness ==
  /\ last.kind = "notfound"
  /\ last.client = "alice"
  /\ last.text = BANG \o MASS \o SP \o <<"x", " ", "1">>
  /\ config.NOT_FOUND_MESSAGE = "1"
  /\ last.replies = 0
  /\ "alice" \in DOMAIN throttled

\* step j of the walk is a required argument whose validate threw after an
\* optional argument before it had accepted a token
FailedAfterAccepted(j) ==
  /\ ~WalkSteps[j].opt
  /\ WalkSteps[j].st = "throw"
  /\ \E i \in 1..(j - 1) :
       WalkSteps[i].opt /\ WalkSteps[i].st = "ok" /\ WalkSteps[i].after # WalkSteps[i].given

\* C32: validateArgs consumes the text in one greedy pass from left to
\* right without backtracking: every argument is visited once, in
\* declaration order, on the remainder its predecessor left, and when a
\* required argument fails after an earlier optional one accepted a token,
\* that failure is the outcome, the handler is not called, and the earlier
\* choice stays: [optional string label][required number count] on "5"
\* fails with count's ParseError.
GreedyNoBacktracking ==
  voutput.op # "none" =>
    /\ Len(WalkSteps) <= Len(vinput.arguments)
    /\ \A i \in 1..Len(WalkSteps) :
         /\ WalkSteps[i].arg = vinput.arguments[i]
         /\ WalkSteps[i].given =
              IF i = 1 THEN Trim(vinput.args) ELSE WalkSteps[i - 1].after
    /\ \A j \in 1..Len(WalkSteps) :
         FailedAfterAccepted(j) =>
           /\ j = Len(WalkSteps)
           /\ voutput.walk.thrown = WalkSteps[j].err
           /\ \A i \in 1..(j - 1) :
                WalkSteps[i].st = "ok" => WalkSteps[i].recorded = WalkSteps[i].val
           /\ voutput.op \in {"validate", "dispatch"} =>
                (voutput.validate.kind = WalkSteps[j].err.kind /\ voutput.calls = 0)
    /\ (vinput.arguments = <<label, count>> /\ vinput.args = <<"5">>) =>
         (voutput.walk.thrown.kind = "ParseError"
            /\ voutput.walk.thrown = WalkSteps[2].err)

\* [optional string label][required number count] was dispatched on "5":
\* label took the token, count failed on the empty remainder and no
\* handler ran, although count alone validates "5"
GreedyNoBacktrackingWitness ==
  /\ voutput.op = "dispatch"
  /\ vinput.arguments = <<label, count>>
  /\ vinput.args = <<"5">>
  /\ FailedAfterAccepted(2)
  /\ WalkSteps[1].val = StrV(<<"5">>)
  /\ WalkSteps[2].given = <<>>
  /\ voutput.validate.kind = "ParseError"
  /\ voutput.calls = 0
  /\ validateCommand(<<count>>, vinput.args).kind = "ok"

\* the token meets every constraint the leaf argument declares
Satisfies(arg, tok) ==
  CASE arg.type \in {"string", "rest"} ->
         /\ \A m \in arg.min : Len(tok) >= m
         /\ \A m \in arg.max : Len(tok) <= m
         /\ \A w \in arg.whitelistWords : tok \in w
    [] arg.type = "number" ->
         /\ IsNumberToken(tok)
         /\ \A m \in arg.min : ParseFloat(tok) >= m
         /\ \A m \in arg.max : ParseFloat(tok) <= m
    [] arg.type = "client" -> tok = UID

\* the value the token stands for
ValueOf(arg, tok) == IF arg.type = "number" THEN NumV(ParseFloat(tok)) ELSE StrV(tok)

\* C33: for a string, number or client argument and a text made of a
\* token that meets every declared constraint and trailing text, validate
\* returns the token's value and, as remainder, the trailing text
\* untouched; a RestArgument returns the whole text as its value and an
\* empty remainder.
LeafRoundTrip ==
  voutput.op = "argument" =>
    IF vinput.arguments[1].type = "rest"
      THEN Satisfies(vinput.arguments[1], vinput.args) =>
             voutput.leaf = Returns(StrV(vinput.args), <<>>)
    ELSE Satisfies(vinput.arguments[1], FirstToken(vinput.args)) =>
           voutput.leaf = Returns(ValueOf(vinput.arguments[1], FirstToken(vinput.args)),
                                  AfterFirstToken(vinput.args))

\* the argument declares no minimum length and no whitelist (the model
\* declares no pattern)
Unconstrained(arg) == arg.min = {} /\ arg.whitelistWords = {}

\* C39: on empty text a required NumberArgument or client argument fails
\* with ParseError, while a StringArgument or RestArgument that declares no
\* minimum length, whitelist or pattern succeeds with the empty string as
\* value and an empty remainder; a Command whose required string argument
\* is unconstrained therefore calls its handler when it is invoked with no
\* argument text.
EmptyTextLeafRule ==
  (voutput.op # "none" /\ vinput.args = <<>> /\ ~vinput.arguments[1].opt) =>
    /\ (voutput.op = "argument" /\ vinput.arguments[1].type \in {"number", "client"}) =>
         (voutput.leaf.st = "throw" /\ voutput.leaf.err.kind = "ParseError")
    /\ (/\ voutput.op = "argument"
        /\ vinput.arguments[1].type \in {"string", "rest"}
        /\ Unconstrained(vinput.arguments[1])) =>
         voutput.leaf = Returns(StrV(<<>>), <<>>)
    /\ (voutput.op = "dispatch" /\ vinput.arguments[1].type \in {"number", "client"}) =>
         (voutput.validate.kind = "ParseError" /\ voutput.calls = 0)
    /\ (/\ voutput.op = "dispatch"
        /\ vinput.arguments[1].type \in {"string", "rest"}
        /\ Unconstrained(vinput.arguments[1])) =>
         /\ voutput.validate.kind = "ok"
         /\ voutput.validate.result[vinput.arguments[1].name] = StrV(<<>>)
         /\ voutput.calls = 1

\* the Command with the one required string argument phrase was invoked
\* with no argument text and its handler was called
EmptyTextLeafRuleWitness ==
  /\ voutput.op = "dispatch"
  /\ vinput.arguments = <<phrase>>
  /\ vinput.args = <<>>
  /\ voutput.calls = 1

\* the points the bucket map holds for id, a missing bucket being full
PointsOf(buckets, id) == IF id \in DOMAIN buckets THEN buckets[id].points ELSE config.initial

\* C34: however the suspended dispatches of one identity to a throttled
\* Command are interleaved and in whatever order they are resumed, the
\* throttle check and the deduction of a dispatch happen in one step on the
\* same bucket state: a charged dispatch found the bucket above zero and
\* leaves exactly one penalty less, a refused one changes nothing, no
\* deduction is lost, and without a restoration tick in between the
\* handler runs at most ceil(initialPoints/penaltyPerCommand) times.
InterleavedThrottleAtomic ==
  /\ [](\A id \in Clients : uses[id] >= 0 => uses[id] <= CeilUses)
  /\ [](\A id \in Clients :
          uses[id] >= 0 => PointsOf(throttled, id) = config.initial - uses[id] * config.penalty)
  /\ [][(last'.kind = "dispatch" /\ last'.outcome \notin {"PermissionError"}
            /\ last'.validation = "ok" /\ Registered[last'.target].throttle) =>
          IF last'.charged
            THEN /\ PointsOf(throttled, last'.client) > 0
                 /\ PointsOf(throttled', last'.client) =
                      PointsOf(throttled, last'.client) - config.penalty
                 /\ last'.calls = Registered[last'.target].execHandler
          ELSE /\ PointsOf(throttled, last'.client) <= 0
               /\ throttled' = throttled
               /\ last'.outcome = "ThrottleError"
               /\ last'.calls = 0]_vars

\* two dispatches of alice were suspended together and the later one was
\* resumed first: it was charged while the earlier one is still waiting
InterleavedThrottleAtomicWitness ==
  /\ last.kind = "dispatch"
  /\ last.client = "alice"
  /\ last.charged
  /\ inflight[1].pc = "perm"
  /\ inflight[1].client = "alice"
  /\ inflight[2].pc = "idle"
  /\ PointsOf(throttled, "alice") <= 0

\* C35: a dispatch refused with ThrottleError deducts nothing from the
\* identity's bucket and neither clears, sets nor puts off its restoration
\* timeout: attempts made while throttled cannot lower the bucket further
\* or extend the time until the identity is unthrottled.
RefusedDispatchChangesNothing ==
  [][(last'.kind = "dispatch" /\ last'.outcome = "ThrottleError") =>
       /\ ~last'.charged
       /\ isThrottled(throttled, last'.client)
       /\ UNCHANGED <<throttled, timers, clock>>
       /\ \A id \in Clients : timeTillNextCommand(id)' = timeTillNextCommand(id)]_vars

\* alice was refused some time after her last charged use: her timeout and
\* the recorded next restoration are still those of that use
RefusedDispatchChangesNothingWitness ==
  /\ last.kind = "dispatch"
  /\ last.outcome = "ThrottleError"
  /\ last.client = "alice"
  /\ "alice" \in timers
  /\ clock.now > 0
  /\ clock.next["alice"] < clock.now + TickRate

\* C36: while the Throttle runs, after every one of its operations a uid
\* has a bucket exactly when one restoration timeout waits for it, the one
\* whose handle the bucket stores: setting a new timeout clears the previous
\* one, so no uid has two, and a uid whose bucket was deleted has none.
OneTimeoutPerBucket ==
  \A id \in Clients :
    IF id \in DOMAIN throttled
      THEN clock.timeouts[id] = 1 /\ id \in timers
    ELSE clock.timeouts[id] = 0 /\ id \notin timers

\* throttle was called for alice while an earlier timeout of hers was still
\* waiting, and bob's bucket is gone
OneTimeoutPerBucketWitness ==
  /\ last.kind = "throttle"
  /\ last.client = "alice"
  /\ last.bucketBefore # {}
  /\ clock.timeouts["alice"] = 1
  /\ clock.now > 0
  /\ "bob" \notin DOMAIN throttled

\* what the Throttle holds for the uid id: its bucket, the time of its next
\* restoration, its timeout and when that is due
HeldFor(id) ==
  <<IF id \in DOMAIN throttled THEN {throttled[id]} ELSE {},
    id \in timers,
    clock.timeouts[id],
    IF id \in DOMAIN clock.next THEN {clock.next[id]} ELSE {},
    IF id \in DOMAIN clock.due THEN {clock.due[id]} ELSE {}>>

\* C37: the state of a Throttle is kept per uid: a dispatch of one client,
\* charged a use or refused with ThrottleError, and a restoration timeout
\* fired for one client leave the bucket, the next restoration time and the
\* timeout of every other client as they were, so that the other client is
\* throttled after the step exactly if it was before.
ThrottleIsolatedPerIdentity ==
  [][\A a \in Clients : \A b \in Clients \ {a} :
       ((last'.kind = "dispatch" /\ last'.client = a) \/ Tick(a)) =>
         /\ HeldFor(b)' = HeldFor(b)
         /\ isThrottled(throttled', b) <=> isThrottled(throttled, b)]_vars

\* alice was refused with ThrottleError while bob holds a bucket with points
\* left and a waiting timeout
ThrottleIsolatedPerIdentityWitness ==
  /\ last.kind = "dispatch"
  /\ last.outcome = "ThrottleError"
  /\ last.client = "alice"
  /\ "bob" \in DOMAIN throttled
  /\ "bob" \in timers
  /\ ~isThrottled(throttled, "bob")

====
